---- MODULE Spec2Model ----
(***************************************************************************)
(* Model of the lungo logistic / exchange supervisors of coffeeAGNTCY: the *)
(* conversation graphs, their routers, the create_order broadcast with the *)
(* group chat of the farm, shipper and accountant agents, and the summary  *)
(* of the agents' replies.                                                 *)
(*                                                                         *)
(* Texts are sequences of one-character strings, so that substring tests,  *)
(* case folding, stripping and formatting are computed as the code does.   *)
(***************************************************************************)
EXTENDS Integers, Sequences, FiniteSets, TLC

(* ------------------------------- state ------------------------------ *)

VARIABLES
  transport,   \* DEFAULT_MESSAGE_TRANSPORT of the process
  graph,       \* the graph that serves the request: "logistic", "exchange", or
               \* the graph of an agent: "farm", "shipper", "accountant"
  long_run,    \* TRUE when the serve call is followed up to the recursion limit
               \* of the graph, with an LLM whose replies are those of LoopLLM
  sched,       \* "free": the agents of a group chat reply in any order;
               \* "rounds": in any order, none a reply ahead of an agent with
               \* a message; "turns": the agent first in AgentOrder with a
               \* message replies.  Under "free" the chat relays the replies
               \* that carry a status, under the others idle replies too
  echo,        \* TRUE when the group chat hands a reply to its sender too
  prompt,      \* the prompt handed to serve
  pc,          \* position of the serve call: a node name, or serve's own steps
  messages,    \* state["messages"], the transcript
  next_node,   \* state["next_node"]
  step,        \* the nodes the graph has run in this serve call
  result,      \* what serve returned or raised
  llm_raw,     \* the latest response of the LLM, as the provider gave it
  status,      \* the status the farm node extracted from its input, <<>> before
  tool,        \* the tools node: the call under execution and the ToolMessages so far
  call,        \* the create_order call under execution
  chat,        \* the group chat of the broadcast under way
  used_topics, \* the topics of the broadcasts that have ended
  llm_handles, \* the LLM handles of the graph object that are set (not None)
  http_status, \* the status of the HTTP response of handle_prompt, 0 before
  timeout_env  \* LOGISTIC_TIMEOUT in the environment of the process: "unset", or
               \* "set" to a string

vars ==
  <<transport, graph, long_run, sched, echo, prompt, pc, messages, next_node, step, result, llm_raw,
    status, tool, call, chat, used_topics, llm_handles, http_status, timeout_env>>

\* what a serve call never changes
env == <<transport, graph, long_run, sched, echo, prompt, http_status, timeout_env>>

(* ------------------------------ texts ------------------------------ *)

UpperChars == <<"A","B","C","D","E","F","G","H","I","J","K","L","M","N","O","P","Q","R","S","T","U","V","W","X","Y","Z">>

LowerChars == <<"a","b","c","d","e","f","g","h","i","j","k","l","m","n","o","p","q","r","s","t","u","v","w","x","y","z">>

DigitChars == <<"0","1","2","3","4","5","6","7","8","9">>

SpaceChars == {" ", "\t", "\n"}

\* In the text operators, CHOOSE r \in {e(s) : s \in {t}} : TRUE is e(t) with t
\* evaluated once.

InSeq(c, s) == \E i \in 1..Len(s) : s[i] = c

IndexOf(c, s) == CHOOSE i \in 1..Len(s) : s[i] = c

\* str.lower() and str.upper(), one character
lower_char(c) == IF InSeq(c, UpperChars) THEN LowerChars[IndexOf(c, UpperChars)] ELSE c

upper_char(c) == IF InSeq(c, LowerChars) THEN UpperChars[IndexOf(c, LowerChars)] ELSE c

lower(t) == CHOOSE r \in {[i \in 1..Len(s) |-> lower_char(s[i])] : s \in {t}} : TRUE

upper(t) == CHOOSE r \in {[i \in 1..Len(s) |-> upper_char(s[i])] : s \in {t}} : TRUE

\* str.strip(): leading and trailing whitespace removed
RECURSIVE lstrip(_)
lstrip(t) == IF t # <<>> /\ Head(t) \in SpaceChars THEN lstrip(Tail(t)) ELSE t

RECURSIVE rstrip(_)
rstrip(t) ==
  IF t # <<>> /\ t[Len(t)] \in SpaceChars THEN rstrip(SubSeq(t, 1, Len(t) - 1)) ELSE t

strip(t) == CHOOSE r \in {rstrip(lstrip(s)) : s \in {t}} : TRUE

\* Python's `needle in hay` on strings
IsSubstr(needle, hay) ==
  \E h \in {hay} :
    \E i \in 0..(Len(h) - Len(needle)) : SubSeq(h, i + 1, i + Len(needle)) = needle

\* \w of the re module, on the characters the model uses
IsWordChar(c) == InSeq(c, UpperChars) \/ InSeq(c, LowerChars) \/ InSeq(c, DigitChars) \/ c = "_"

\* re.search(r"\b<word>\b", text, re.IGNORECASE) for a word of word characters
WordSearchIgnoreCase(word, text) ==
  \E t \in {text} :
    \E i \in 0..(Len(t) - Len(word)) :
      /\ lower(SubSeq(t, i + 1, i + Len(word))) = lower(word)
      /\ (i = 0 \/ ~IsWordChar(t[i]))
      /\ (i + Len(word) = Len(t) \/ ~IsWordChar(t[i + Len(word) + 1]))

\* sep.join(parts)
RECURSIVE join(_, _)
join(sep, parts) ==
  IF parts = <<>> THEN <<>>
  ELSE IF Len(parts) = 1 THEN parts[1]
  ELSE parts[1] \o sep \o join(sep, Tail(parts))

\* str(n) for a natural number
RECURSIVE str_int(_)
str_int(n) == IF n < 10 THEN <<DigitChars[n + 1]>> ELSE str_int(n \div 10) \o <<DigitChars[(n % 10) + 1]>>

\* str(x) for a float of integral value, as the f-string prints price
str_float(n) == str_int(n) \o <<".", "0">>

(* ------------------------- status lattice -------------------------- *)

RECEIVED_ORDER == <<"R","E","C","E","I","V","E","D","_","O","R","D","E","R">>

HANDOVER_TO_SHIPPER == <<"H","A","N","D","O","V","E","R","_","T","O","_","S","H","I","P","P","E","R">>

CUSTOMS_CLEARANCE == <<"C","U","S","T","O","M","S","_","C","L","E","A","R","A","N","C","E">>

PAYMENT_COMPLETE == <<"P","A","Y","M","E","N","T","_","C","O","M","P","L","E","T","E">>

DELIVERED == <<"D","E","L","I","V","E","R","E","D">>

STATUS_UNKNOWN == <<"S","T","A","T","U","S","_","U","N","K","N","O","W","N">>

\* the values of LogisticStatus in declaration order, which is the order in
\* which STATUS_LOOKUP is traversed
STATUS_LOOKUP ==
  <<RECEIVED_ORDER, HANDOVER_TO_SHIPPER, CUSTOMS_CLEARANCE, PAYMENT_COMPLETE,
    DELIVERED, STATUS_UNKNOWN>>

\* an extract_status that returns None, here <<>>, when no key is found
extract_status_or_none(message) ==
  IF \E i \in 1..Len(STATUS_LOOKUP) : IsSubstr(STATUS_LOOKUP[i], message)
  THEN LET first == CHOOSE i \in 1..Len(STATUS_LOOKUP) :
                      /\ IsSubstr(STATUS_LOOKUP[i], message)
                      /\ \A j \in 1..(i - 1) : ~IsSubstr(STATUS_LOOKUP[j], message)
       IN STATUS_LOOKUP[first]
  ELSE <<>>

\* an extract_status that matches a key as a whole word only
extract_status_whole_word(message) ==
  IF \E i \in 1..Len(STATUS_LOOKUP) : WordSearchIgnoreCase(STATUS_LOOKUP[i], message)
  THEN LET first == CHOOSE i \in 1..Len(STATUS_LOOKUP) :
                      /\ WordSearchIgnoreCase(STATUS_LOOKUP[i], message)
                      /\ \A j \in 1..(i - 1) : ~WordSearchIgnoreCase(STATUS_LOOKUP[j], message)
       IN STATUS_LOOKUP[first]
  ELSE STATUS_UNKNOWN

\* where needle begins in hay for the first time, 0 when it is not in hay
first_index(needle, hay) ==
  IF IsSubstr(needle, hay)
  THEN CHOOSE i \in 1..Len(hay) :
         /\ i + Len(needle) - 1 <= Len(hay)
         /\ SubSeq(hay, i, i + Len(needle) - 1) = needle
         /\ \A j \in 1..(i - 1) : SubSeq(hay, j, j + Len(needle) - 1) # needle
  ELSE 0

\* an extract_status that returns the key that stands first in the text
extract_status_leftmost(message) ==
  IF \E i \in 1..Len(STATUS_LOOKUP) : IsSubstr(STATUS_LOOKUP[i], message)
  THEN LET first == CHOOSE i \in 1..Len(STATUS_LOOKUP) :
                      /\ IsSubstr(STATUS_LOOKUP[i], message)
                      /\ \A j \in 1..Len(STATUS_LOOKUP) :
                           (j # i /\ IsSubstr(STATUS_LOOKUP[j], message)) =>
                             first_index(STATUS_LOOKUP[i], message)
                               < first_index(STATUS_LOOKUP[j], message)
       IN STATUS_LOOKUP[first]
  ELSE STATUS_UNKNOWN

extract_status(message) ==
  IF \E i \in 1..Len(STATUS_LOOKUP) : IsSubstr(STATUS_LOOKUP[i], message)
  THEN LET first == CHOOSE i \in 1..Len(STATUS_LOOKUP) :
                      /\ IsSubstr(STATUS_LOOKUP[i], message)
                      /\ \A j \in 1..(i - 1) : ~IsSubstr(STATUS_LOOKUP[j], message)
       IN STATUS_LOOKUP[first]
  ELSE STATUS_UNKNOWN

(* ---------------------- the logistic agents ------------------------ *)

SHIPPER_IDLE == <<"S","H","I","P","P","E","R","_","I","D","L","E">>

ACCOUNTANT_IDLE == <<"A","c","c","o","u","n","t","a","n","t"," ","i","d","l","e",","," ","n","o"," ","a","c","t","i","o","n"," ","t","a","k","e","n",".">>

FARM_IDLE ==
  <<"A","c","t","i","o","n"," ","'","N","o","n","e","'"," ","r","e","c","e","i","v","e","d","."," ","N","o"," ","s","h","i","p","p","e","r"," ","h","a","n","d","l","i","n","g"," ","r","e","q","u","i","r","e","d","."," ">>
  \o <<"S","h","i","p","p","e","r"," ","r","e","m","a","i","n","s"," ","I","D","L","E","."," ","N","o"," ","f","u","r","t","h","e","r"," ","a","c","t","i","o","n"," ","r","e","q","u","i","r","e","d",".">>

\* a farm that acts on the bare status only, as the shipper does
farm_node_exact(text) ==
  IF strip(text) = RECEIVED_ORDER THEN HANDOVER_TO_SHIPPER ELSE FARM_IDLE

\* FarmAgent._farm_node on the text of the last message
farm_node(text) ==
  IF extract_status(strip(text)) = RECEIVED_ORDER THEN HANDOVER_TO_SHIPPER ELSE FARM_IDLE

\* a shipper that skips the customs: the handover is answered DELIVERED
shipper_node_skips_customs(text) ==
  LET message_content == upper(strip(text))
  IN IF message_content = HANDOVER_TO_SHIPPER THEN DELIVERED
     ELSE IF message_content = PAYMENT_COMPLETE THEN DELIVERED
     ELSE SHIPPER_IDLE

\* ShipperAgent._shipper_node on the text of the last message
shipper_node(text) ==
  LET message_content == upper(strip(text))
  IN IF message_content = HANDOVER_TO_SHIPPER THEN CUSTOMS_CLEARANCE
     ELSE IF message_content = PAYMENT_COMPLETE THEN DELIVERED
     ELSE SHIPPER_IDLE

\* AccountantAgent._accountant_node on the text of the last message
accountant_node(text) ==
  LET message_content == upper(strip(text))
  IN IF IsSubstr(CUSTOMS_CLEARANCE, message_content) THEN PAYMENT_COMPLETE
     ELSE ACCOUNTANT_IDLE

(* ------------------ summary of the agents' replies ------------------ *)

Unknown == <<"U","n","k","n","o","w","n">>

NO_UPDATES == <<"N","o"," ","n","o","n","-","i","d","l","e"," ","s","t","a","t","u","s"," ","u","p","d","a","t","e","s"," ","r","e","c","e","i","v","e","d",".">>

SUMMARY_PREFIX == <<"O","r","d","e","r"," ","s","t","a","t","u","s"," ","u","p","d","a","t","e","s",":"," ">>

SUMMARY_FINAL == <<" ","(","f","i","n","a","l",")">>

\* A response of the broadcast: ok is FALSE for an object that lacks the
\* fields the summary reads (reading it raises, and the entry is skipped);
\* has_name tells whether the metadata carries a name; parts are the texts of
\* the message parts.
Response(ok, has_name, name, parts) ==
  [ok |-> ok, has_name |-> has_name, name |-> name, parts |-> parts]

\* next((text.strip() for p in parts if text.strip()), "")
RECURSIVE first_text(_)
first_text(parts) ==
  IF parts = <<>> THEN <<>>
  ELSE IF strip(Head(parts)) # <<>> THEN strip(Head(parts))
  ELSE first_text(Tail(parts))

\* the four accumulators as a call creates them
SummaryInit ==
  [agent_first_order |-> <<>>, agent_statuses |-> <<>>,
   delivered_segments |-> <<>>, delivered_seen |-> FALSE]

\* accumulators that outlive the call, as module-level lists or mutable
\* default arguments would: a run starts with what the run before it left
summarize_begin_keeps(left) == left

\* the start of a run: the accumulators are locals, created anew whatever
\* an earlier run has left in memory
summarize_begin(left) == SummaryInit

\* a loop body that looks for the word delivered before it looks for idle
summarize_step_delivered_first(acc, response) ==
  IF ~response.ok THEN acc
  ELSE
    LET name == IF response.has_name THEN response.name ELSE Unknown
        text == first_text(response.parts)
    IN IF text = <<>> THEN acc
       ELSE IF WordSearchIgnoreCase(<<"d","e","l","i","v","e","r","e","d">>, text)
       THEN [acc EXCEPT !.delivered_seen = TRUE,
                        !.delivered_segments = Append(@, name \o <<":", " ">> \o text)]
       ELSE IF IsSubstr(<<"i","d","l","e">>, lower(text)) THEN acc
       ELSE
         LET known == InSeq(name, acc.agent_first_order)
             order == IF known THEN acc.agent_first_order
                      ELSE Append(acc.agent_first_order, name)
             lists == IF known THEN acc.agent_statuses ELSE Append(acc.agent_statuses, <<>>)
             k     == IndexOf(name, order)
             mine  == lists[k]
         IN [acc EXCEPT !.agent_first_order = order,
                        !.agent_statuses =
                           IF mine = <<>> \/ mine[Len(mine)] # text
                           THEN [lists EXCEPT ![k] = Append(mine, text)]
                           ELSE lists]

\* a loop body that folds a delivered text into the sender's status list
summarize_step_fold_delivered(acc, response) ==
  IF ~response.ok THEN acc
  ELSE
    LET name == IF response.has_name THEN response.name ELSE Unknown
        text == first_text(response.parts)
    IN IF text = <<>> \/ IsSubstr(<<"i","d","l","e">>, lower(text)) THEN acc
       ELSE
         LET known == InSeq(name, acc.agent_first_order)
             order == IF known THEN acc.agent_first_order
                      ELSE Append(acc.agent_first_order, name)
             lists == IF known THEN acc.agent_statuses ELSE Append(acc.agent_statuses, <<>>)
             k     == IndexOf(name, order)
             mine  == lists[k]
         IN [acc EXCEPT !.delivered_seen =
                           @ \/ WordSearchIgnoreCase(<<"d","e","l","i","v","e","r","e","d">>, text),
                        !.agent_first_order = order,
                        !.agent_statuses =
                           IF mine = <<>> \/ mine[Len(mine)] # text
                           THEN [lists EXCEPT ![k] = Append(mine, text)]
                           ELSE lists]

\* a loop body that drops a status the sender has sent at any earlier time
summarize_step_full_dedup(acc, response) ==
  IF ~response.ok THEN acc
  ELSE
    LET name == IF response.has_name THEN response.name ELSE Unknown
        text == first_text(response.parts)
    IN IF text = <<>> \/ IsSubstr(<<"i","d","l","e">>, lower(text)) THEN acc
       ELSE IF WordSearchIgnoreCase(<<"d","e","l","i","v","e","r","e","d">>, text)
       THEN [acc EXCEPT !.delivered_seen = TRUE,
                        !.delivered_segments = Append(@, name \o <<":", " ">> \o text)]
       ELSE
         LET known == InSeq(name, acc.agent_first_order)
             order == IF known THEN acc.agent_first_order
                      ELSE Append(acc.agent_first_order, name)
             lists == IF known THEN acc.agent_statuses ELSE Append(acc.agent_statuses, <<>>)
             k     == IndexOf(name, order)
             mine  == lists[k]
         IN [acc EXCEPT !.agent_first_order = order,
                        !.agent_statuses =
                           IF ~InSeq(text, mine)
                           THEN [lists EXCEPT ![k] = Append(mine, text)]
                           ELSE lists]

\* a loop body that starts anew at an object that is not a reply
summarize_step_malformed_resets(acc, response) ==
  IF ~response.ok THEN [agent_first_order |-> <<>>, agent_statuses |-> <<>>,
                        delivered_segments |-> <<>>, delivered_seen |-> FALSE]
  ELSE
    LET name == IF response.has_name THEN response.name ELSE Unknown
        text == first_text(response.parts)
    IN IF text = <<>> \/ IsSubstr(<<"i","d","l","e">>, lower(text)) THEN acc
       ELSE IF WordSearchIgnoreCase(<<"d","e","l","i","v","e","r","e","d">>, text)
       THEN [acc EXCEPT !.delivered_seen = TRUE,
                        !.delivered_segments = Append(@, name \o <<":", " ">> \o text)]
       ELSE
         LET known == InSeq(name, acc.agent_first_order)
             order == IF known THEN acc.agent_first_order
                      ELSE Append(acc.agent_first_order, name)
             lists == IF known THEN acc.agent_statuses ELSE Append(acc.agent_statuses, <<>>)
             k     == IndexOf(name, order)
             mine  == lists[k]
         IN [acc EXCEPT !.agent_first_order = order,
                        !.agent_statuses =
                           IF mine = <<>> \/ mine[Len(mine)] # text
                           THEN [lists EXCEPT ![k] = Append(mine, text)]
                           ELSE lists]

\* one iteration of the loop over the responses; agent_statuses[i] is the
\* status list of agent_first_order[i]
summarize_step(acc, response) ==
  IF ~response.ok THEN acc
  ELSE
    LET name == IF response.has_name THEN response.name ELSE Unknown
        text == first_text(response.parts)
    IN IF text = <<>> \/ IsSubstr(<<"i","d","l","e">>, lower(text)) THEN acc
       ELSE IF WordSearchIgnoreCase(<<"d","e","l","i","v","e","r","e","d">>, text)
       THEN [acc EXCEPT !.delivered_seen = TRUE,
                        !.delivered_segments = Append(@, name \o <<":", " ">> \o text)]
       ELSE
         LET known == InSeq(name, acc.agent_first_order)
             order == IF known THEN acc.agent_first_order
                      ELSE Append(acc.agent_first_order, name)
             lists == IF known THEN acc.agent_statuses ELSE Append(acc.agent_statuses, <<>>)
             k     == IndexOf(name, order)
             mine  == lists[k]
         IN [acc EXCEPT !.agent_first_order = order,
                        !.agent_statuses =
                           IF mine = <<>> \/ mine[Len(mine)] # text
                           THEN [lists EXCEPT ![k] = Append(mine, text)]
                           ELSE lists]

RECURSIVE summarize_loop(_, _)
summarize_loop(acc, responses) ==
  IF responses = <<>> THEN acc
  ELSE CHOOSE r \in {summarize_loop(next_acc, Tail(responses)) :
                       next_acc \in {summarize_step(acc, Head(responses))}} : TRUE

\* a text that reports no updates whenever no sender has a status list,
\* delivered segments or not
summary_text_no_status_list(acc) ==
  LET agent_segments ==
        [i \in 1..Len(acc.agent_first_order) |->
           acc.agent_first_order[i] \o <<":", " ">> \o join(<<",", " ">>, acc.agent_statuses[i])]
      segments == agent_segments \o acc.delivered_segments
      summary == SUMMARY_PREFIX \o join(<<" ", "|", " ">>, segments)
  IN IF acc.agent_first_order = <<>> THEN NO_UPDATES
     ELSE IF acc.delivered_seen THEN summary \o SUMMARY_FINAL
     ELSE summary

\* a text that puts the delivered segments before the segments of the senders
summary_text_delivered_segments_first(acc) ==
  LET agent_segments ==
        [i \in 1..Len(acc.agent_first_order) |->
           acc.agent_first_order[i] \o <<":", " ">> \o join(<<",", " ">>, acc.agent_statuses[i])]
      segments == acc.delivered_segments \o agent_segments
      summary == SUMMARY_PREFIX \o join(<<" ", "|", " ">>, segments)
  IN IF acc.agent_first_order = <<>> /\ acc.delivered_segments = <<>> THEN NO_UPDATES
     ELSE IF acc.delivered_seen THEN summary \o SUMMARY_FINAL
     ELSE summary

\* a text that marks every summary as final
summary_text_always_final(acc) ==
  LET agent_segments ==
        [i \in 1..Len(acc.agent_first_order) |->
           acc.agent_first_order[i] \o <<":", " ">> \o join(<<",", " ">>, acc.agent_statuses[i])]
      segments == agent_segments \o acc.delivered_segments
      summary == SUMMARY_PREFIX \o join(<<" ", "|", " ">>, segments)
  IN IF acc.agent_first_order = <<>> /\ acc.delivered_segments = <<>> THEN NO_UPDATES
     ELSE summary \o SUMMARY_FINAL

\* the text built after the loop of _summarize_a2a_responses
summary_text(acc) ==
  LET agent_segments ==
        [i \in 1..Len(acc.agent_first_order) |->
           acc.agent_first_order[i] \o <<":", " ">> \o join(<<",", " ">>, acc.agent_statuses[i])]
      segments == agent_segments \o acc.delivered_segments
      summary == SUMMARY_PREFIX \o join(<<" ", "|", " ">>, segments)
  IN IF acc.agent_first_order = <<>> /\ acc.delivered_segments = <<>> THEN NO_UPDATES
     ELSE IF acc.delivered_seen THEN summary \o SUMMARY_FINAL
     ELSE summary

\* _summarize_a2a_responses
summarize_a2a_responses(responses) ==
  CHOOSE r \in {summary_text(acc) : acc \in {summarize_loop(SummaryInit, responses)}} : TRUE

(* ----------------------------- messages ----------------------------- *)

\* A transcript message.  has_tool_calls tells whether the object carries a
\* tool_calls attribute (an AIMessage does, also when the list is empty);
\* tool_call_id is 0 except for a ToolMessage.
Msg(type, content, has_tool_calls, tool_calls, tool_call_id) ==
  [type |-> type, content |-> content, has_tool_calls |-> has_tool_calls,
   tool_calls |-> tool_calls, tool_call_id |-> tool_call_id]

HumanMessage(content) == Msg("human", content, FALSE, <<>>, 0)

AIMessage(content, tool_calls) == Msg("ai", content, TRUE, tool_calls, 0)

ToolMessage(content, tool_call_id) == Msg("tool", content, FALSE, <<>>, tool_call_id)

SystemMessage(content) == Msg("system", content, FALSE, <<>>, 0)

ToolCall(id, name, args) == [id |-> id, name |-> name, args |-> args]

CreateOrderArgs(farm, quantity, price) == [farm |-> farm, quantity |-> quantity, price |-> price]

(* ------------------------------ bounds ------------------------------ *)

\* longest transcript of one serve call
MaxTranscript == 5

\* idle replies that the group chat relays to the agents
MaxIdleRelay == 1

\* responses of the list that is summarised more than once
MaxRerunResponses == 2

\* runs of the summary on one list
MaxRuns == 2

MaxExchangeTranscript == 6

\* broadcast attempts whose outcome the transport fixes in advance
MaxPlan == 3

(* --------------------------- input values --------------------------- *)

PROMPT_BUY == <<"b","u","y">>

FARM_BRAZIL == <<"B","r","a","z","i","l">>

FARM_TATOOINE == <<"t","a","t","o","o","i","n","e">>

TEXT_OK == <<"o","k">>

VALIDATION_PRICE_QUANTITY == <<"P","r","i","c","e"," ","a","n","d"," ","q","u","a","n","t","i","t","y"," ","m","u","s","t"," ","b","o","t","h"," ","b","e"," ","g","r","e","a","t","e","r"," ","t","h","a","n"," ","z","e","r","o",".">>

VALIDATION_FARM == <<"N","o"," ","f","a","r","m"," ","p","r","o","v","i","d","e","d","."," ","P","l","e","a","s","e"," ","s","p","e","c","i","f","y"," ","a"," ","f","a","r","m",".">>

ORDER_TEXT_1 == <<"C","r","e","a","t","e"," ","a","n"," ","o","r","d","e","r"," ","w","i","t","h"," ","p","r","i","c","e"," ">>

ORDER_TEXT_2 == <<" ","a","n","d"," ","q","u","a","n","t","i","t","y"," ">>

ORDER_TEXT_3 == <<"."," ","S","t","a","t","u","s",":"," ">>

ERROR_PREFIX == <<"E","r","r","o","r",":"," ">>

NAME_SHIPPER == <<"S","h","i","p","p","e","r">>

NAME_FARM == <<"F","a","r","m">>

NAME_ACCOUNTANT == <<"A","c","c","o","u","n","t","a","n","t">>

Agents == {"shipper", "farm", "accountant"}

\* metadata["name"] of an agent's reply
AgentName(a) ==
  IF a = "shipper" THEN NAME_SHIPPER ELSE IF a = "farm" THEN NAME_FARM ELSE NAME_ACCOUNTANT

\* <Agent>.ainvoke: the node's AIMessage content, stripped
agent_ainvoke(a, user_message) ==
  strip(IF a = "shipper" THEN shipper_node(user_message)
        ELSE IF a = "farm" THEN farm_node(user_message)
        ELSE accountant_node(user_message))

NoResult == [kind |-> "none", value |-> <<>>]

Returned(text) == [kind |-> "returned", value |-> text]

Raised(error) == [kind |-> "raised", value |-> error]

IdleTool == [idx |-> 0, out |-> <<>>]

IdleCall ==
  [pc |-> "idle", args |-> CreateOrderArgs(<<>>, 0, 0), transport |-> FALSE, client |-> FALSE,
   attempts |-> 0, plan |-> <<>>, result |-> <<>>, error |-> "none"]

\* no broadcast under way.  topic, recipients, end_message, group_chat and
\* timeout are the arguments of broadcast_message.
IdleChat ==
  [topic |-> "", recipients |-> {}, end_message |-> <<>>, group_chat |-> FALSE, timeout |-> 0,
   inbox |-> [a \in Agents |-> <<>>], responses |-> <<>>, idle_relayed |-> 0, ended |-> FALSE]

Last(s) == s[Len(s)]

\* a channel without reducer: the update of a node replaces the transcript
add_messages_overwrite(left, right) == right

\* the add_messages reducer for messages with new ids: the update is appended
add_messages(left, right) == left \o right

\* recursion_limit of the graph run: serve passes none and the default holds
RecursionLimit == 25

\* the transcript may take n more messages: a run followed to the recursion
\* limit is bounded by its steps only
CanGrow(n) ==
  \/ long_run
  \/ Len(messages) + n <= (IF graph = "exchange" THEN MaxExchangeTranscript ELSE MaxTranscript)

(* ------------------------- the logistic graph ----------------------- *)

\* a router without the test for a ToolMessage
next_tools_or_end_no_tool_test(msgs) ==
  LET msg == Last(msgs)
  IN IF msg.has_tool_calls /\ msg.tool_calls # <<>> THEN "orders_tools" ELSE "__end__"

\* next_tools_or_end
next_tools_or_end(msgs) ==
  LET msg == Last(msgs)
  IN IF msg.type = "tool" THEN "__end__"
     ELSE IF msg.has_tool_calls /\ msg.tool_calls # <<>> THEN "orders_tools"
     ELSE "__end__"

\* if not self.<handle>: self.<handle> = get_llm()...: a node sets its LLM
\* handle on the graph object the first time it runs
lazy_llm(handles, name) == handles \cup {name}

\* LogisticGraph.serve up to the invocation of the graph
LogisticServe ==
  /\ graph = "logistic" /\ pc = "serve"
  /\ IF strip(prompt) = <<>>
     THEN /\ pc' = "raised"
          /\ result' = Raised("ValueError")
          /\ UNCHANGED messages
     ELSE /\ pc' = "orders_broker"
          /\ messages' = <<HumanMessage(prompt)>>
          /\ UNCHANGED result
  /\ UNCHANGED <<env, status, used_topics, llm_handles, step, llm_raw, next_node, tool, call, chat>>

\* the arguments the LLM may give create_order
LogisticArgs ==
  {CreateOrderArgs(FARM_BRAZIL, 1, 1), CreateOrderArgs(FARM_BRAZIL, 0, 1),
   CreateOrderArgs(<<" ">>, 1, 1)}

\* the replies of the opaque LLM bound to create_order: a content and the
\* arguments of the tool calls it declares
LogisticLLM ==
  {[content |-> c, calls |-> k] :
     c \in {<<>>, TEXT_OK}, k \in {<<>>} \cup {<<a>> : a \in LogisticArgs}}

\* the replies of the LLM in a run followed to the recursion limit: a content,
\* and no call or one call that the validation of create_order refuses
LoopLLM ==
  {[content |-> c, calls |-> k] :
     c \in {<<>>, TEXT_OK}, k \in {<<>>, <<CreateOrderArgs(<<" ">>, 1, 1)>>}}

\* the AIMessage of a reply appended at position p: tool call ids are fresh
llm_response(reply, p) ==
  AIMessage(reply.content,
            [i \in 1..Len(reply.calls) |-> ToolCall(2 * p + i, "create_order", reply.calls[i])])

\* LogisticGraph._orders_node
LogisticOrdersNode ==
  /\ graph = "logistic" /\ pc = "orders_broker"
  /\ step < RecursionLimit
  /\ step' = step + 1
  /\ CanGrow(1)
  /\ \E reply \in (IF long_run THEN LoopLLM ELSE LogisticLLM) :
       /\ llm_raw' = llm_response(reply, Len(messages) + 1)
       /\ messages' = add_messages(messages, <<llm_raw'>>)
  /\ pc' = "orders_route"
  /\ llm_handles' = lazy_llm(llm_handles, "orders_llm")
  /\ UNCHANGED <<env, status, used_topics, next_node, result, tool, call, chat>>

\* the errors an LLM call may raise
LLMErrors == {"ValueError", "RuntimeError", "TimeoutError", "Exception"}

\* the LLM call fails: the exception leaves the graph, and serve raises a
\* ValueError again as a ValueError and any other exception as an Exception
LogisticLLMRaises ==
  /\ graph = "logistic" /\ pc = "orders_broker"
  /\ pc' = "raised"
  /\ \E e \in LLMErrors : result' = Raised(IF e = "ValueError" THEN "ValueError" ELSE "Exception")
  /\ llm_handles' = lazy_llm(llm_handles, "orders_llm")
  /\ UNCHANGED <<env, status, used_topics, step, llm_raw, messages, next_node, tool, call, chat>>

\* the errors get_llm may raise: the ValueError of a provider that lacks its
\* settings, the RuntimeError of a refused token, the JSONDecodeError (a
\* ValueError) of a token reply that is no JSON, the TypeError of one that
\* is no object, the KeyError of one without access_token, the
\* AttributeError of the wrapper without get_llm, the ConnectionError of the
\* token request
GetLLMErrors ==
  {"ValueError", "RuntimeError", "JSONDecodeError", "TypeError", "KeyError", "AttributeError",
   "ConnectionError"}

\* get_llm raises at the first run of the node, before the assignment: the
\* handle stays unset, and serve raises a ValueError again as a ValueError
\* and any other exception as an Exception
LogisticGetLLMRaises ==
  /\ graph = "logistic" /\ pc = "orders_broker"
  /\ "orders_llm" \notin llm_handles
  /\ pc' = "raised"
  /\ \E e \in GetLLMErrors :
       result' = Raised(IF e \in {"ValueError", "JSONDecodeError"} THEN "ValueError" ELSE "Exception")
  /\ UNCHANGED <<env, status, used_topics, llm_handles, step, llm_raw, messages, next_node, tool, call, chat>>

\* the conditional edge after orders_broker
LogisticRoute ==
  /\ graph = "logistic" /\ pc = "orders_route"
  /\ pc' = next_tools_or_end(messages)
  /\ tool' = IF next_tools_or_end(messages) = "orders_tools" THEN [idx |-> 1, out |-> <<>>] ELSE tool
  /\ UNCHANGED <<env, status, used_topics, llm_handles, step, llm_raw, messages, next_node, result, call, chat>>

(* -------------------- create_order and its broadcast ---------------- *)

\* the text of the order-creation message
order_text(price, quantity) ==
  ORDER_TEXT_1 \o str_float(price) \o ORDER_TEXT_2 \o str_int(quantity)
    \o ORDER_TEXT_3 \o RECEIVED_ORDER

\* an entry that validates the arguments before it checks the transport
create_order_entry_validation_first(kind, args) ==
  IF args.price <= 0 \/ args.quantity <= 0
  THEN [IdleCall EXCEPT !.pc = "returned", !.args = args, !.result = VALIDATION_PRICE_QUANTITY]
  ELSE IF lower(strip(args.farm)) = <<>>
  THEN [IdleCall EXCEPT !.pc = "returned", !.args = args, !.result = VALIDATION_FARM]
  ELSE IF kind # "SLIM" THEN [IdleCall EXCEPT !.pc = "raised", !.args = args, !.error = "ValueError"]
  ELSE [IdleCall EXCEPT !.pc = "create_client", !.args = args, !.transport = TRUE]

\* an entry that takes the transport of the factory before it validates
create_order_entry_transport_first(kind, args) ==
  IF kind # "SLIM" THEN [IdleCall EXCEPT !.pc = "raised", !.args = args, !.error = "ValueError"]
  ELSE IF args.price <= 0 \/ args.quantity <= 0
  THEN [IdleCall EXCEPT !.pc = "returned", !.args = args, !.transport = TRUE,
                        !.result = VALIDATION_PRICE_QUANTITY]
  ELSE IF lower(strip(args.farm)) = <<>>
  THEN [IdleCall EXCEPT !.pc = "returned", !.args = args, !.transport = TRUE,
                        !.result = VALIDATION_FARM]
  ELSE [IdleCall EXCEPT !.pc = "create_client", !.args = args, !.transport = TRUE]

\* an entry without the check of the configured transport
create_order_entry_any_transport(kind, args) ==
  IF args.price <= 0 \/ args.quantity <= 0
  THEN [IdleCall EXCEPT !.pc = "returned", !.args = args, !.result = VALIDATION_PRICE_QUANTITY]
  ELSE IF lower(strip(args.farm)) = <<>>
  THEN [IdleCall EXCEPT !.pc = "returned", !.args = args, !.result = VALIDATION_FARM]
  ELSE [IdleCall EXCEPT !.pc = "create_client", !.args = args, !.transport = TRUE]

\* create_order from its entry to its first await: the transport check, the
\* validation of the arguments, the transport of the shared factory
create_order_entry(kind, args) ==
  IF kind # "SLIM" THEN [IdleCall EXCEPT !.pc = "raised", !.args = args, !.error = "ValueError"]
  ELSE IF args.price <= 0 \/ args.quantity <= 0
  THEN [IdleCall EXCEPT !.pc = "returned", !.args = args, !.result = VALIDATION_PRICE_QUANTITY]
  ELSE IF lower(strip(args.farm)) = <<>>
  THEN [IdleCall EXCEPT !.pc = "returned", !.args = args, !.result = VALIDATION_FARM]
  ELSE [IdleCall EXCEPT !.pc = "create_client", !.args = args, !.transport = TRUE]

\* the tool calls the tools node executes
PendingCalls == Last(messages).tool_calls

\* the tools node invokes create_order for the next tool call
CallCreateOrder ==
  /\ graph = "logistic" /\ pc = "orders_tools"
  /\ step < RecursionLimit
  /\ call.pc = "idle"
  /\ tool.idx \in 1..Len(PendingCalls)
  /\ CanGrow(Len(PendingCalls))
  /\ call' = create_order_entry(transport, PendingCalls[tool.idx].args)
  /\ chat' = IdleChat
  /\ UNCHANGED <<env, status, used_topics, llm_handles, step, llm_raw, pc, messages, next_node, result, tool>>

\* a create_order that swallows the transport failure and summarises
\* whatever had been received
on_broadcast_error_swallowed(c) ==
  [c EXCEPT !.pc = "returned", !.result = summarize_a2a_responses(chat.responses)]

\* what create_order does when a broadcast attempt raises: the exception
\* leaves create_order
on_broadcast_error(c) == [c EXCEPT !.pc = "raised", !.error = "TransportError"]

GROUP_CHAT_TOPIC == "GROUP_CHAT_TOPIC"

\* timeout of broadcast_message, in seconds
BROADCAST_TIMEOUT == 60

\* recipients that are the three agents for one farm only
recipients_by_farm(farm) ==
  IF lower(strip(farm)) = <<"b","r","a","z","i","l">> THEN {"shipper", "farm", "accountant"}
  ELSE {"shipper", "accountant"}

\* the recipients of the broadcast: the three agents, whatever the farm
recipients(farm) == {"shipper", "farm", "accountant"}

\* client.broadcast_message at its start: the request reaches the recipients
broadcast_message(text, broadcast_topic, to, end_message, group_chat, timeout) ==
  [IdleChat EXCEPT !.topic = broadcast_topic, !.recipients = to,
                   !.end_message = end_message, !.group_chat = group_chat,
                   !.timeout = timeout,
                   !.inbox = [a \in Agents |-> IF a \in to THEN <<text>> ELSE <<>>]]

\* a create_order that goes on after the swallowed failure and returns the
\* summary of no responses
on_client_error_summarised(c, client_created) ==
  [c EXCEPT !.pc = "returned", !.client = client_created,
            !.result = summarize_a2a_responses(<<>>)]

\* except Exception of the try block around create_client and the request:
\* the failure is logged and swallowed, and the broadcast statement that
\* follows reads an unbound local, client or request, before anything is sent
on_client_error(c, client_created) ==
  [c EXCEPT !.pc = "raised", !.client = client_created, !.error = "UnboundLocalError"]

\* await factory.create_client(...) and the construction of the request.  A
\* failure of either is logged and swallowed, client or request stays unbound
\* and the broadcast statement raises UnboundLocalError.  Otherwise the
\* broadcast is sent: the order text reaches the three recipients.
CreateClient ==
  /\ call.pc = "create_client"
  /\ \E ok \in BOOLEAN, client_created \in BOOLEAN :
       IF ~ok
       THEN /\ call' = on_client_error(call, client_created)
            /\ UNCHANGED chat
       ELSE /\ call' = [call EXCEPT !.pc = "broadcast", !.attempts = @ + 1, !.client = TRUE]
            /\ chat' = broadcast_message(order_text(call.args.price, call.args.quantity),
                                         GROUP_CHAT_TOPIC, recipients(call.args.farm),
                                         DELIVERED, TRUE, BROADCAST_TIMEOUT)
  /\ UNCHANGED <<env, status, used_topics, llm_handles, step, llm_raw, pc, messages, next_node, result, tool>>

IsIdleReply(text) == IsSubstr(<<"i","d","l","e">>, lower(text))

\* the order in which the agents take turns under sched = "turns"
AgentOrder == <<"shipper", "farm", "accountant">>

\* the replies an agent has given in the chat
replies_of(a) ==
  Cardinality({i \in 1..Len(chat.responses) : chat.responses[i].name = AgentName(a)})

HasTurn(a) ==
  \/ sched = "free"
  \/ /\ sched = "rounds"
     /\ \A b \in Agents : chat.inbox[b] # <<>> => replies_of(a) <= replies_of(b)
  \/ /\ sched = "turns"
     /\ \E i \in 1..Len(AgentOrder) :
          /\ AgentOrder[i] = a
          /\ \A j \in 1..(i - 1) : chat.inbox[AgentOrder[j]] = <<>>

\* An agent takes the next message of the group chat and replies.  The reply
\* is collected; the transport relays it to the other agents of the chat (and
\* to its sender under echo), and ends the chat when the reply is the
\* end_message DELIVERED.
AgentStep(a) ==
  /\ call.pc = "broadcast"
  /\ ~chat.ended
  /\ chat.inbox[a] # <<>>
  /\ HasTurn(a)
  /\ \E reply \in {agent_ainvoke(a, Head(chat.inbox[a]))} :
     LET ended == reply = chat.end_message
         relay == /\ ~ended
                  /\ chat.group_chat
                  /\ (~IsIdleReply(reply) \/ (sched # "free" /\ chat.idle_relayed < MaxIdleRelay))
     IN chat' =
          [chat EXCEPT
             !.inbox = [b \in Agents |->
                          (IF b = a THEN Tail(chat.inbox[b]) ELSE chat.inbox[b])
                            \o (IF relay /\ b \in chat.recipients /\ (b # a \/ echo)
                                THEN <<reply>> ELSE <<>>)],
             !.responses = Append(chat.responses, Response(TRUE, TRUE, AgentName(a), <<reply>>)),
             !.idle_relayed = chat.idle_relayed + (IF relay /\ IsIdleReply(reply) THEN 1 ELSE 0),
             !.ended = ended]
  /\ UNCHANGED <<env, status, used_topics, llm_handles, step, llm_raw, pc, messages, next_node, result, tool, call>>

\* broadcast_message returns, at the end_message or when its timeout
\* elapses, and create_order returns the summary of the responses
BroadcastReturn ==
  /\ call.pc = "broadcast"
  /\ call' = [call EXCEPT !.pc = "returned", !.plan = <<"ok">>,
                          !.result = summarize_a2a_responses(chat.responses)]
  /\ used_topics' = used_topics \cup {chat.topic}
  /\ UNCHANGED <<env, status, llm_handles, step, llm_raw, pc, messages, next_node, result, tool, chat>>

\* broadcast_message raises.  plan records this outcome and those the
\* transport would give to further attempts of the call.
BroadcastRaise ==
  /\ call.pc = "broadcast"
  /\ \E rest \in [1..(MaxPlan - 1) -> {"ok", "fail"}] :
       call' = on_broadcast_error([call EXCEPT !.plan = <<"fail">> \o rest])
  /\ used_topics' = used_topics \cup {chat.topic}
  /\ UNCHANGED <<env, status, llm_handles, step, llm_raw, pc, messages, next_node, result, tool, chat>>

\* the content of the ToolMessage the tools node builds for a finished call
tool_content(c) ==
  IF c.pc = "returned" THEN c.result
  ELSE ERROR_PREFIX \o (IF c.error = "ValueError" THEN <<"V">>
                        ELSE IF c.error = "TransportError" THEN <<"T">>
                        ELSE <<"U">>)

\* tools nodes whose edge leads to the conditional edge of their LLM node
after_tools_to_router(node) ==
  IF node = "inventory_broker" THEN "inventory_route" ELSE "orders_route"

\* add_edge(<tools node>, <LLM node>): where control goes after the tools
\* node of an LLM node
after_tools(node) == node

\* The tools node takes the outcome of the call: a returned string, or an
\* exception turned into an error ToolMessage.  After the last call the
\* ToolMessages join the transcript and control goes back to orders_broker.
ToolFinish ==
  /\ graph = "logistic" /\ pc = "orders_tools"
  /\ call.pc \in {"returned", "raised"}
  /\ LET out == Append(tool.out, ToolMessage(tool_content(call), PendingCalls[tool.idx].id))
     IN IF tool.idx = Len(PendingCalls)
        THEN /\ messages' = add_messages(messages, out)
             /\ pc' = after_tools("orders_broker")
             /\ tool' = IdleTool
             /\ step' = step + 1
        ELSE /\ tool' = [idx |-> tool.idx + 1, out |-> out]
             /\ UNCHANGED <<messages, pc, step>>
  /\ call' = IdleCall
  /\ chat' = IdleChat
  /\ UNCHANGED <<env, status, used_topics, llm_handles, llm_raw, next_node, result>>

\* the tools node lets the exception of the call through: the graph fails
\* and serve re-raises, a ValueError as a ValueError and any other exception
\* as an Exception
ToolRaises ==
  /\ graph = "logistic" /\ pc = "orders_tools"
  /\ call.pc = "raised"
  /\ pc' = "raised"
  /\ result' = Raised(IF call.error = "ValueError" THEN "ValueError" ELSE "Exception")
  /\ call' = IdleCall
  /\ chat' = IdleChat
  /\ tool' = IdleTool
  /\ UNCHANGED <<env, status, used_topics, llm_handles, step, llm_raw, messages, next_node>>

\* The graph is due to run one more node at the recursion limit: ainvoke
\* raises GraphRecursionError, which serve raises again as an Exception.
RecursionLimitHit ==
  /\ graph = "logistic" /\ pc \in {"orders_broker", "orders_tools"}
  /\ call.pc = "idle"
  /\ step >= RecursionLimit
  /\ pc' = "raised"
  /\ result' = Raised("Exception")
  /\ UNCHANGED <<env, status, used_topics, llm_handles, step, llm_raw, messages, next_node, tool, call, chat>>

\* a serve that answers with the last message of any type that is not blank
last_answer_any_type(msgs) ==
  IF \E i \in 1..Len(msgs) : strip(msgs[i].content) # <<>>
  THEN CHOOSE i \in 1..Len(msgs) :
         /\ strip(msgs[i].content) # <<>>
         /\ \A j \in (i + 1)..Len(msgs) : strip(msgs[j].content) = <<>>
  ELSE 0

\* the last AIMessage with non-blank content, or 0
last_answer(msgs) ==
  IF \E i \in 1..Len(msgs) : msgs[i].type = "ai" /\ strip(msgs[i].content) # <<>>
  THEN CHOOSE i \in 1..Len(msgs) :
         /\ msgs[i].type = "ai" /\ strip(msgs[i].content) # <<>>
         /\ \A j \in (i + 1)..Len(msgs) : ~(msgs[j].type = "ai" /\ strip(msgs[j].content) # <<>>)
  ELSE 0

\* LogisticGraph.serve after the graph has ended
LogisticServeReturn ==
  /\ graph = "logistic" /\ pc = "__end__"
  /\ IF last_answer(messages) # 0
     THEN /\ pc' = "returned"
          /\ result' = Returned(strip(messages[last_answer(messages)].content))
     ELSE /\ pc' = "raised"
          /\ result' = Raised("Exception")
  /\ UNCHANGED <<env, status, used_topics, llm_handles, step, llm_raw, messages, next_node, tool, call, chat>>

Prompts == {PROMPT_BUY, <<" ">>}

Init ==
  /\ transport \in {"SLIM", "NATS"}
  /\ graph = "logistic"
  /\ long_run = FALSE
  /\ sched = "turns"
  /\ echo \in BOOLEAN
  /\ prompt \in Prompts
  /\ pc = "serve"
  /\ messages = <<>>
  /\ next_node = ""
  /\ step = 0
  /\ result = NoResult
  /\ llm_raw = AIMessage(<<>>, <<>>)
  /\ tool = IdleTool
  /\ call = IdleCall
  /\ chat = IdleChat
  /\ status = <<>>
  /\ used_topics = {}
  /\ llm_handles = {}
  /\ http_status = 0
  /\ timeout_env = "unset"

Next ==
  \/ LogisticServe
  \/ LogisticOrdersNode
  \/ LogisticLLMRaises
  \/ LogisticGetLLMRaises
  \/ LogisticRoute
  \/ CallCreateOrder
  \/ CreateClient
  \/ \E a \in Agents : AgentStep(a)
  \/ BroadcastReturn
  \/ BroadcastRaise
  \/ ToolFinish
  \/ ToolRaises
  \/ LogisticServeReturn

Spec == Init /\ [][Next]_vars

(* ------------------- the handler of POST /agent/prompt -------------- *)

\* the status handle_prompt answers with.  The timeout of wait_for is
\* os.getenv("LOGISTIC_TIMEOUT", 200): a string when the variable is set, and
\* wait_for then raises TypeError before it awaits serve, which the handler
\* answers with 500.  Otherwise 504 when wait_for timed out, 400 for a
\* ValueError of serve, 500 for any other exception, 200 for a result.
handle_prompt(outcome, timed_out, timeout) ==
  IF timeout # "unset" THEN 500
  ELSE IF timed_out THEN 504
  ELSE IF outcome.kind = "returned" THEN 200
  ELSE IF outcome.value = "ValueError" THEN 400
  ELSE 500

\* serve has ended and handle_prompt answers
HandlePrompt ==
  /\ graph = "logistic" /\ pc \in {"returned", "raised"}
  /\ timeout_env = "unset"
  /\ http_status = 0
  /\ http_status' = handle_prompt(result, FALSE, timeout_env)
  /\ UNCHANGED <<transport, graph, long_run, sched, echo, prompt, pc, messages, next_node, step,
                 result, llm_raw, status, tool, call, chat, used_topics, llm_handles, timeout_env>>

\* CancelledError at the await of a create_order call: no except Exception
\* clause catches it, the call ends without client, broadcast or summary
cancel_call(c) ==
  IF c.pc \in {"create_client", "broadcast"}
  THEN [c EXCEPT !.pc = "cancelled", !.error = "CancelledError"]
  ELSE c

\* the timeout of wait_for elapses before serve has ended: serve is
\* cancelled where it stands, a create_order call under way ends by
\* CancelledError and its broadcast, if sent, is over; handle_prompt answers
HandlePromptTimeout ==
  /\ graph = "logistic" /\ pc \notin {"returned", "raised", "cancelled"}
  /\ timeout_env = "unset"
  /\ http_status = 0
  /\ http_status' = handle_prompt(result, TRUE, timeout_env)
  /\ pc' = "cancelled"
  /\ call' = cancel_call(call)
  /\ used_topics' = IF call.pc = "broadcast" THEN used_topics \cup {chat.topic} ELSE used_topics
  /\ UNCHANGED <<transport, graph, long_run, sched, echo, prompt, messages, next_node, step,
                 result, llm_raw, status, tool, chat, llm_handles, timeout_env>>

\* LOGISTIC_TIMEOUT is set: wait_for raises TypeError on the string, the
\* coroutine of serve is never awaited and handle_prompt answers
HandlePromptTypeError ==
  /\ graph = "logistic" /\ pc = "serve"
  /\ timeout_env # "unset"
  /\ http_status = 0
  /\ http_status' = handle_prompt(result, FALSE, timeout_env)
  /\ pc' = "never_awaited"
  /\ UNCHANGED <<transport, graph, long_run, sched, echo, prompt, messages, next_node, step,
                 result, llm_raw, status, tool, call, chat, used_topics, llm_handles, timeout_env>>

\* the process of the logistic supervisor before a request
HandlerInit ==
  /\ transport \in {"SLIM", "NATS"}
  /\ graph = "logistic"
  /\ long_run = FALSE
  /\ sched = "turns"
  /\ echo \in BOOLEAN
  /\ prompt \in Prompts
  /\ pc = "serve"
  /\ messages = <<>>
  /\ next_node = ""
  /\ step = 0
  /\ result = NoResult
  /\ llm_raw = AIMessage(<<>>, <<>>)
  /\ tool = IdleTool
  /\ call = IdleCall
  /\ chat = IdleChat
  /\ status = <<>>
  /\ used_topics = {}
  /\ llm_handles = {}
  /\ http_status = 0
  /\ timeout_env \in {"unset", "set"}

\* serve runs only when wait_for awaits it
HandlerNext ==
  \/ timeout_env = "unset" /\ Next
  \/ HandlePrompt
  \/ HandlePromptTimeout
  \/ HandlePromptTypeError

HandlerSpec == HandlerInit /\ [][HandlerNext]_vars

(* ------------- one create_order call, the agents scheduled freely ---- *)

\* the arguments of the call under study
OrderArgs ==
  LogisticArgs \cup {CreateOrderArgs(FARM_BRAZIL, 1, 0), CreateOrderArgs(FARM_TATOOINE, 1, 1)}

\* the logistic graph at the entry of its tools node, one tool call pending
OrderInit ==
  /\ transport \in {"SLIM", "NATS"}
  /\ graph = "logistic"
  /\ long_run = FALSE
  /\ \/ sched = "free" /\ echo = FALSE
     \/ sched = "turns" /\ echo = TRUE
  /\ prompt = PROMPT_BUY
  /\ pc = "orders_tools"
  /\ \E a \in OrderArgs :
       /\ llm_raw = AIMessage(<<>>, <<ToolCall(5, "create_order", a)>>)
       /\ messages = <<HumanMessage(prompt), llm_raw>>
  /\ next_node = ""
  /\ step = 1
  /\ result = NoResult
  /\ tool = [idx |-> 1, out |-> <<>>]
  /\ call = IdleCall
  /\ chat = IdleChat
  /\ status = <<>>
  /\ used_topics = {}
  /\ llm_handles = {"orders_llm"}
  /\ http_status = 0
  /\ timeout_env = "unset"

OrderNext ==
  \/ CallCreateOrder
  \/ CreateClient
  \/ \E a \in Agents : AgentStep(a)
  \/ BroadcastReturn
  \/ BroadcastRaise
  \/ ToolFinish
  \/ ToolRaises

OrderSpec == OrderInit /\ [][OrderNext]_vars

(* ------------- the group chat of one create_order call ------------- *)

\* the logistic graph at the entry of its tools node with a valid order
\* pending, under SLIM; the group chat hands every reply to the three agents,
\* its sender included, and the agents reply under each of the schedules
ChatInit ==
  /\ transport = "SLIM"
  /\ graph = "logistic"
  /\ long_run = FALSE
  /\ sched \in {"free", "rounds", "turns"}
  /\ echo = TRUE
  /\ prompt = PROMPT_BUY
  /\ pc = "orders_tools"
  /\ llm_raw = AIMessage(<<>>, <<ToolCall(5, "create_order", CreateOrderArgs(FARM_BRAZIL, 1, 1))>>)
  /\ messages = <<HumanMessage(prompt), llm_raw>>
  /\ next_node = ""
  /\ step = 1
  /\ result = NoResult
  /\ tool = [idx |-> 1, out |-> <<>>]
  /\ call = IdleCall
  /\ chat = IdleChat
  /\ status = <<>>
  /\ used_topics = {}
  /\ llm_handles = {"orders_llm"}
  /\ http_status = 0
  /\ timeout_env = "unset"

ChatNext ==
  \/ CallCreateOrder
  \/ CreateClient
  \/ \E a \in Agents : AgentStep(a)
  \/ BroadcastReturn

ChatSpec == ChatInit /\ [][ChatNext]_vars

\* delivery in the group chat is fair: an agent with a pending message
\* eventually replies, unless the broadcast has ended
ChatFairSpec == ChatSpec /\ \A a \in Agents : WF_vars(AgentStep(a))

CallEnded == call.pc \in {"returned", "raised"}

(* --------------------- claims on create_order ----------------------- *)

TransportFailed == call.pc = "raised" /\ call.error = "TransportError"

\* C1: a broadcast attempt that fails at the transport is followed by another
\* attempt until one succeeds or 3 attempts have been made, and a call never
\* makes more than 3 attempts: a call that ends on a transport failure has
\* made its 3 attempts.
C1_RetryUntilThreeAttempts ==
  /\ call.attempts <= 3
  /\ TransportFailed => call.attempts = 3

\* C2: when the transport fails the first 2 broadcast attempts of a call and
\* lets the 3rd succeed, the call returns the summary of the 3rd attempt.
C2_ThirdAttemptSummary ==
  (CallEnded /\ Len(call.plan) >= 3 /\ SubSeq(call.plan, 1, 3) = <<"fail", "fail", "ok">>)
    => (call.pc = "returned" /\ call.attempts = 3)

AllAttemptsFail ==
  /\ call.plan # <<>>
  /\ \A i \in 1..Len(call.plan) : call.plan[i] = "fail"

\* C3: when every broadcast attempt fails, the call ends in an error after at
\* most 3 attempts and returns no summary, neither a partial one nor the
\* 'No non-idle status updates received.' literal.
C3_AllFailIsFatal ==
  AllAttemptsFail =>
    /\ TransportFailed
    /\ call.result = <<>>
    /\ call.attempts <= 3
    /\ tool_content(call) # summarize_a2a_responses(chat.responses)
    /\ tool_content(call) # NO_UPDATES

\* the transport failed after agents had replied with statuses
C3_Witness ==
  /\ AllAttemptsFail
  /\ call.pc = "raised"
  /\ summarize_a2a_responses(chat.responses) # NO_UPDATES

\* the statuses the agents produced, in the order of their replies
RECURSIVE status_replies(_)
status_replies(responses) ==
  IF responses = <<>> THEN <<>>
  ELSE LET text == first_text(Head(responses).parts)
       IN (IF IsIdleReply(text) THEN <<>> ELSE <<text>>) \o status_replies(Tail(responses))

StatusChain == <<HANDOVER_TO_SHIPPER, CUSTOMS_CLEARANCE, PAYMENT_COMPLETE, DELIVERED>>

IsPrefix(s, t) == Len(s) <= Len(t) /\ s = SubSeq(t, 1, Len(s))

\* C4: from the order text seeded with RECEIVED_ORDER the agents produce
\* HANDOVER_TO_SHIPPER, CUSTOMS_CLEARANCE, PAYMENT_COMPLETE, DELIVERED one after
\* the other, none skipped and none repeated, and under fair delivery a
\* broadcast goes on until DELIVERED is produced, unless the transport ends it
\* first (timeout or failure).
C4_OneHopPerRound ==
  /\ [](IsPrefix(status_replies(chat.responses), StatusChain))
  /\ [](chat.ended => status_replies(chat.responses) = StatusChain)
  /\ ((call.pc = "broadcast") ~> (chat.ended \/ call.pc # "broadcast"))

\* the agents replied in an order of their own and the whole chain was
\* produced
C4_Witness ==
  /\ echo
  /\ sched = "free"
  /\ chat.ended
  /\ status_replies(chat.responses) = StatusChain

\* an idle reply was relayed to the three agents before DELIVERED
C4_WitnessIdleRelayed ==
  /\ echo
  /\ sched = "rounds"
  /\ chat.idle_relayed > 0
  /\ chat.ended
  /\ status_replies(chat.responses) = StatusChain

(* ------------------- the serve call that never ends ----------------- *)

\* the logistic graph followed up to the recursion limit
LoopInit ==
  /\ transport \in {"SLIM", "NATS"}
  /\ graph = "logistic"
  /\ long_run = TRUE
  /\ sched = "turns"
  /\ echo = FALSE
  /\ prompt \in Prompts
  /\ pc = "serve"
  /\ messages = <<>>
  /\ next_node = ""
  /\ step = 0
  /\ result = NoResult
  /\ llm_raw = AIMessage(<<>>, <<>>)
  /\ tool = IdleTool
  /\ call = IdleCall
  /\ chat = IdleChat
  /\ status = <<>>
  /\ used_topics = {}
  /\ llm_handles = {}
  /\ http_status = 0
  /\ timeout_env = "unset"

\* the steps of a run whose calls the entry of create_order refuses: no
\* client is created and no broadcast is sent
LoopNext ==
  \/ LogisticServe
  \/ LogisticOrdersNode
  \/ LogisticLLMRaises
  \/ LogisticGetLLMRaises
  \/ LogisticRoute
  \/ CallCreateOrder
  \/ ToolFinish
  \/ ToolRaises
  \/ LogisticServeReturn
  \/ RecursionLimitHit

LoopSpec == LoopInit /\ [][LoopNext]_vars

\* C5: every serve call reaches END after finitely many node steps, whatever
\* the LLM and the tools answer: the LLM node and the tools node do not
\* alternate until the run is cut off at the recursion limit.
C5_GraphReachesEnd == ~(pc = "raised" /\ step >= RecursionLimit)

HasDelivered(m) == IsSubstr(DELIVERED, m.content)

\* C6: once a message of the transcript contains DELIVERED, the orders node
\* declares no further tool call and create_order is not executed again.
C6_NoToolCallAfterDelivered ==
  \A i \in 1..Len(messages) :
    HasDelivered(messages[i]) =>
      /\ \A j \in (i + 1)..Len(messages) :
           ~(messages[j].type = "ai" /\ messages[j].tool_calls # <<>>)
      /\ call.pc = "idle"

(* ------------------------- the exchange graph ----------------------- *)

INTENT_INVENTORY == <<"i","n","v","e","n","t","o","r","y">>

INTENT_ORDERS == <<" ","O","r","d","e","r","s">>

INTENT_OTHER == <<"h","e","l","l","o">>

GENERAL_TEXT == <<"I","'","m"," ","n","o","t"," ","s","u","r","e"," ","h","o","w"," ","t","o"," ","h","a","n","d","l","e"," ","t","h","a","t","."," ","C","o","u","l","d"," ","y","o","u"," ","p","l","e","a","s","e"," ","c","l","a","r","i","f","y","?">>

INVENTORY_APOLOGY ==
  <<"I"," ","e","n","c","o","u","n","t","e","r","e","d"," ","s","o","m","e"," ","i","s","s","u","e","s"," ","r","e","t","r","i","e","v","i","n","g"," ","i","n","f","o","r","m","a","t","i","o","n"," ","f","o","r"," ","y","o","u","r"," ","r","e","q","u","e","s","t","."," ">>
  \o <<"S","o","m","e"," ","p","a","r","t","s"," ","c","o","u","l","d"," ","n","o","t"," ","b","e"," ","c","o","m","p","l","e","t","e","d"," ","a","t"," ","t","h","i","s"," ","t","i","m","e"," ","d","u","e"," ","t","o"," ","a"," ","t","e","c","h","n","i","c","a","l"," ","i","s","s","u","e","."," ","P","l","e","a","s","e"," ","t","r","y"," ","a","g","a","i","n"," ","l","a","t","e","r",".">>

ORDERS_APOLOGY ==
  <<"I","'","m"," ","s","o","r","r","y",","," ","I"," ","w","a","s"," ","u","n","a","b","l","e"," ","t","o"," ","c","o","m","p","l","e","t","e"," ","y","o","u","r"," ","o","r","d","e","r"," ","r","e","q","u","e","s","t"," ","f","o","r"," ","a","l","l"," ","i","t","e","m","s","."," ">>
  \o <<"A","n"," ","i","s","s","u","e"," ","o","c","c","u","r","r","e","d"," ","f","o","r"," ","s","o","m","e"," ","p","a","r","t","s","."," ","P","l","e","a","s","e"," ","t","r","y"," ","a","g","a","i","n"," ","l","a","t","e","r",".">>

YIELD_TEXT == <<"y","i","e","l","d"," ","5">>

TIMEOUT_TEXT == <<"R","e","q","u","e","s","t"," ","T","I","M","E","O","U","T">>

FAILED_TEXT == <<"O","r","d","e","r"," ","F","a","i","l","e","d">>

\* NodeStates
SUPERVISOR == "exchange_supervisor"

INVENTORY == "inventory_broker"

INVENTORY_TOOLS == "inventory_tools"

ORDERS == "orders_broker"

ORDERS_TOOLS == "orders_tools"

REFLECTION == "reflection"

GENERAL_INFO == "general"

END == "__end__"

Brokers == {INVENTORY, ORDERS}

\* the LLM handle a node of the exchange graph uses
llm_of(node) ==
  IF node = SUPERVISOR THEN "supervisor_llm"
  ELSE IF node = INVENTORY THEN "inventory_llm"
  ELSE IF node = ORDERS THEN "orders_llm"
  ELSE "reflection_llm"

ToolsOf(node) == IF node = INVENTORY THEN INVENTORY_TOOLS ELSE ORDERS_TOOLS

\* the position of a node that awaits the ainvoke of its LLM: the handle is
\* set and the node has not returned
LLMCallOf(node) ==
  IF node = INVENTORY THEN "inventory_llm_call"
  ELSE IF node = ORDERS THEN "orders_llm_call"
  ELSE "reflection_llm_call"

\* the position between a broker node and its conditional edge
RouteOf(node) == IF node = INVENTORY THEN "inventory_route" ELSE "orders_route"

\* a router that looks for the tool_calls attribute, not into the list
tools_or_next_attr_only(tools_node, end_node, msgs) ==
  IF msgs = <<>> THEN "ValueError"
  ELSE LET ai_message == Last(msgs)
       IN IF ai_message.type = "tool" THEN end_node
          ELSE IF ai_message.has_tool_calls THEN tools_node
          ELSE end_node

\* tools_or_next(tools_node, end_node) applied to the transcript
tools_or_next(tools_node, end_node, msgs) ==
  IF msgs = <<>> THEN "ValueError"
  ELSE LET ai_message == Last(msgs)
       IN IF ai_message.type = "tool" THEN end_node
          ELSE IF ai_message.has_tool_calls /\ Len(ai_message.tool_calls) > 0 THEN tools_node
          ELSE end_node

\* ExchangeGraph.serve up to the invocation of the graph
ExchangeServe ==
  /\ graph = "exchange" /\ pc = "serve"
  /\ IF strip(prompt) = <<>>
     THEN /\ pc' = "raised"
          /\ result' = Raised("ValueError")
          /\ UNCHANGED messages
     ELSE /\ pc' = SUPERVISOR
          /\ messages' = <<HumanMessage(prompt)>>
          /\ UNCHANGED result
  /\ UNCHANGED <<env, status, used_topics, llm_handles, step, llm_raw, next_node, tool, call, chat>>

Intents == {INTENT_INVENTORY, INTENT_ORDERS, INTENT_OTHER}

\* the node _supervisor_node names for an answer of the supervisor LLM
supervisor_next(content) ==
  LET intent == lower(strip(content))
  IN IF IsSubstr(<<"i","n","v","e","n","t","o","r","y">>, intent) THEN INVENTORY
     ELSE IF IsSubstr(<<"o","r","d","e","r","s">>, intent) THEN ORDERS
     ELSE GENERAL_INFO

\* ExchangeGraph._supervisor_node and the conditional edge on next_node.  The
\* node hands the transcript back as it is: the reducer finds every message
\* by its id and the transcript does not change.
ExchangeSupervisor ==
  /\ graph = "exchange" /\ pc = SUPERVISOR
  /\ step < RecursionLimit
  /\ step' = step + 1
  /\ \E content \in Intents :
       /\ next_node' = supervisor_next(content)
       /\ pc' = supervisor_next(content)
  /\ llm_handles' = lazy_llm(llm_handles, "supervisor_llm")
  /\ UNCHANGED <<env, status, used_topics, llm_raw, messages, result, tool, call, chat>>

\* ExchangeGraph._general_response_node, followed by the edge to END
ExchangeGeneral ==
  /\ graph = "exchange" /\ pc = GENERAL_INFO
  /\ step < RecursionLimit
  /\ step' = step + 1
  /\ CanGrow(1)
  /\ next_node' = END
  /\ messages' = add_messages(messages, <<AIMessage(GENERAL_TEXT, <<>>)>>)
  /\ pc' = END
  /\ UNCHANGED <<env, status, used_topics, llm_handles, llm_raw, result, tool, call, chat>>

\* index of the last AIMessage that declares tool calls, or 0
last_ai_message(msgs) ==
  IF \E i \in 1..Len(msgs) : msgs[i].type = "ai" /\ msgs[i].tool_calls # <<>>
  THEN CHOOSE i \in 1..Len(msgs) :
         /\ msgs[i].type = "ai" /\ msgs[i].tool_calls # <<>>
         /\ \A j \in (i + 1)..Len(msgs) : ~(msgs[j].type = "ai" /\ msgs[j].tool_calls # <<>>)
  ELSE 0

\* {tc.get("id") for tc in last_ai_message.tool_calls if tc.get("id")}
tool_call_ids(m) == {m.tool_calls[k].id : k \in 1..Len(m.tool_calls)} \ {0}

\* a broker that looks for the word "error" only
any_tool_failed_error_only(msgs) ==
  /\ last_ai_message(msgs) # 0
  /\ \E i \in 1..Len(msgs) :
       /\ msgs[i].type = "tool"
       /\ msgs[i].tool_call_id \in tool_call_ids(msgs[last_ai_message(msgs)])
       /\ IsSubstr(<<"e","r","r","o","r">>, lower(msgs[i].content))

\* any_tool_failed as the broker nodes compute it from the transcript
any_tool_failed(msgs) ==
  /\ last_ai_message(msgs) # 0
  /\ \E i \in 1..Len(msgs) :
       /\ msgs[i].type = "tool"
       /\ msgs[i].tool_call_id \in tool_call_ids(msgs[last_ai_message(msgs)])
       /\ \/ IsSubstr(<<"e","r","r","o","r">>, lower(msgs[i].content))
          \/ IsSubstr(<<"f","a","i","l","e","d">>, lower(msgs[i].content))
          \/ IsSubstr(<<"t","i","m","e","o","u","t">>, lower(msgs[i].content))

forced_error_message(node) == IF node = INVENTORY THEN INVENTORY_APOLOGY ELSE ORDERS_APOLOGY

\* the safety net at the end of _inventory_node and _orders_node
safety_net(node, failed, llm_response_) ==
  IF failed /\ llm_response_.tool_calls # <<>>
  THEN AIMessage(forced_error_message(node), <<>>)
  ELSE llm_response_

\* the tool a broker's LLM is bound to call in the model
BrokerTool(node) ==
  IF node = INVENTORY
  THEN [name |-> "get_farm_yield_inventory", args |-> CreateOrderArgs(FARM_BRAZIL, 0, 0)]
  ELSE [name |-> "create_order", args |-> CreateOrderArgs(FARM_BRAZIL, 1, 1)]

\* the replies of a broker's LLM: a text and the number of tool calls declared
ExchangeLLM == {[content |-> c, ncalls |-> n] : c \in {<<>>, TEXT_OK}, n \in 0..2}

\* the AIMessage of a reply appended at position p: tool call ids are fresh
exchange_llm_response(node, reply, p) ==
  AIMessage(reply.content,
            [i \in 1..reply.ncalls |-> ToolCall(2 * p + i, BrokerTool(node).name, BrokerTool(node).args)])

\* ExchangeGraph._inventory_node and ExchangeGraph._orders_node up to the
\* await of chain.ainvoke: the handle of the node is set
ExchangeBrokerEnter(node) ==
  /\ graph = "exchange" /\ pc = node
  /\ step < RecursionLimit
  /\ CanGrow(1)
  /\ pc' = LLMCallOf(node)
  /\ llm_handles' = lazy_llm(llm_handles, llm_of(node))
  /\ UNCHANGED <<env, status, used_topics, step, llm_raw, messages, next_node, result, tool, call, chat>>

\* ExchangeGraph._inventory_node and ExchangeGraph._orders_node after the
\* LLM has answered: the safety net, and the reply joins the transcript
ExchangeBrokerNode(node) ==
  /\ graph = "exchange" /\ pc = LLMCallOf(node)
  /\ step' = step + 1
  /\ \E reply \in ExchangeLLM :
       /\ llm_raw' = exchange_llm_response(node, reply, Len(messages) + 1)
       /\ messages' = add_messages(messages, <<safety_net(node, any_tool_failed(messages), llm_raw')>>)
  /\ pc' = RouteOf(node)
  /\ UNCHANGED <<env, status, used_topics, llm_handles, next_node, result, tool, call, chat>>

\* an LLM call of the exchange graph fails: the exception leaves the graph
\* and serve, which has no handler, with its own type.  The supervisor sets
\* its handle and calls its LLM without an await, in one step.
ExchangeLLMRaises ==
  /\ graph = "exchange"
  /\ pc \in {SUPERVISOR} \cup {LLMCallOf(n) : n \in Brokers \cup {REFLECTION}}
  /\ pc' = "raised"
  /\ \E e \in LLMErrors : result' = Raised(e)
  /\ llm_handles' = IF pc = SUPERVISOR THEN lazy_llm(llm_handles, "supervisor_llm") ELSE llm_handles
  /\ UNCHANGED <<env, status, used_topics, step, llm_raw, messages, next_node, tool, call, chat>>

\* get_llm raises at the first run of a node, before the assignment: the
\* handle stays unset and the exception leaves serve with its own type
ExchangeGetLLMRaises ==
  /\ graph = "exchange" /\ pc \in {SUPERVISOR, INVENTORY, ORDERS, REFLECTION}
  /\ llm_of(pc) \notin llm_handles
  /\ pc' = "raised"
  /\ \E e \in GetLLMErrors : result' = Raised(e)
  /\ UNCHANGED <<env, status, used_topics, llm_handles, step, llm_raw, messages, next_node, tool, call, chat>>

\* the positions of a tools node whose tools wait: at "client" for
\* factory.create_client, no request sent; at "send" for the answer to
\* send_message or broadcast_message, the request sent
ToolsWaitOf(node, at) ==
  IF node = INVENTORY
  THEN (IF at = "client" THEN "inventory_tools_client" ELSE "inventory_tools_send")
  ELSE (IF at = "client" THEN "orders_tools_client" ELSE "orders_tools_send")

ToolWaits == {ToolsWaitOf(n, at) : n \in Brokers, at \in {"client", "send"}}

\* the serve call is cancelled while a node awaits its LLM or a tools node
\* awaits its tools: CancelledError ends the node, no except Exception
\* catches it, the handle stays set and nothing joins the transcript
ExchangeCancelled ==
  /\ graph = "exchange"
  /\ pc \in {LLMCallOf(n) : n \in Brokers \cup {REFLECTION}} \cup ToolWaits
  /\ pc' = "cancelled"
  /\ result' = Raised("CancelledError")
  /\ UNCHANGED <<env, status, used_topics, llm_handles, step, llm_raw, messages, next_node, tool, call, chat>>

\* the conditional edge after a broker node
ExchangeRoute(node) ==
  /\ graph = "exchange" /\ pc = RouteOf(node)
  /\ LET next == tools_or_next(ToolsOf(node), REFLECTION, messages)
     IN IF next = "ValueError"
        THEN pc' = "raised" /\ result' = Raised("ValueError")
        ELSE pc' = next /\ UNCHANGED result
  /\ UNCHANGED <<env, status, used_topics, llm_handles, step, llm_raw, messages, next_node, tool, call, chat>>

\* what a tool call of the exchange graph comes to: the text of the farm, or
\* an exception, which the tools node turns into an error text or lets through
ToolOutcomes == {"text", "timeout_text", "failed_text", "error", "raise"}

\* the exceptions the tools of the exchange raise
ToolErrors == {"ValueError", "A2AAgentError"}

outcome_text(o) ==
  IF o = "text" THEN YIELD_TEXT
  ELSE IF o = "timeout_text" THEN TIMEOUT_TEXT
  ELSE IF o = "failed_text" THEN FAILED_TEXT
  ELSE ERROR_PREFIX \o <<"A">>

\* what the tool calls can have come to when the node ends at a position:
\* a tool hands over a text of its peer only after the wait for the answer;
\* before it a tool ends by an exception
outcomes_at(position, node) ==
  IF position = ToolsWaitOf(node, "send") THEN ToolOutcomes ELSE {"error", "raise"}

\* what get_factory and create_transport raise
TransportErrors == {"ConnectionError", "Exception"}

\* the exceptions that leave a tool at a position: the checks of the
\* arguments raise before the first wait, the try blocks raise
\* A2AAgentError.  get_all_farms_yield_inventory, a tool of the inventory
\* node, creates its transport before its try block, and what that raises
\* leaves the tool as it is
errors_at(position, node) ==
  IF position = ToolsOf(node)
  THEN ToolErrors \cup (IF node = INVENTORY THEN TransportErrors ELSE {})
  ELSE {"A2AAgentError"}

\* a tools node of the exchange graph starts its tools: the checks of the
\* arguments have passed and the tools await factory.create_client
ExchangeToolsEnter(node) ==
  /\ graph = "exchange" /\ pc = ToolsOf(node)
  /\ step < RecursionLimit
  /\ CanGrow(Len(Last(messages).tool_calls))
  /\ pc' = ToolsWaitOf(node, "client")
  /\ UNCHANGED <<env, status, used_topics, llm_handles, step, llm_raw, messages, next_node, result, tool, call, chat>>

\* the clients exist, the requests are sent and the tools await the answers
ExchangeToolsSend(node) ==
  /\ graph = "exchange" /\ pc = ToolsWaitOf(node, "client")
  /\ pc' = ToolsWaitOf(node, "send")
  /\ UNCHANGED <<env, status, used_topics, llm_handles, step, llm_raw, messages, next_node, result, tool, call, chat>>

\* a tools node of the exchange graph ends, at the checks of the arguments
\* or after a wait of its tools: one ToolMessage per declared call and the
\* edge back to the broker, or the exception of a tool
ExchangeToolsNode(node) ==
  /\ graph = "exchange" /\ pc \in {ToolsOf(node), ToolsWaitOf(node, "client"), ToolsWaitOf(node, "send")}
  /\ step < RecursionLimit
  /\ step' = step + 1
  /\ LET calls == Last(messages).tool_calls
     IN /\ CanGrow(Len(calls))
        /\ \E outcome \in [1..Len(calls) -> outcomes_at(pc, node)] :
             IF \E i \in 1..Len(calls) : outcome[i] = "raise"
             THEN /\ pc' = "raised"
                  /\ \E e \in errors_at(pc, node) : result' = Raised(e)
                  /\ UNCHANGED messages
             ELSE /\ messages' = add_messages(messages,
                                   [i \in 1..Len(calls) |->
                                      ToolMessage(outcome_text(outcome[i]), calls[i].id)])
                  /\ pc' = after_tools(node)
                  /\ UNCHANGED result
  /\ UNCHANGED <<env, status, used_topics, llm_handles, llm_raw, next_node, tool, call, chat>>

\* is_duplicate_message of _reflection_node
is_duplicate_message(msgs) ==
  Len(msgs) > 2 /\ msgs[Len(msgs)].content = msgs[Len(msgs) - 2].content

\* next_node as _reflection_node decides it
reflection_next(should_continue, msgs) ==
  IF should_continue /\ ~is_duplicate_message(msgs) THEN SUPERVISOR ELSE END

\* ExchangeGraph._reflection_node up to the await of reflection_llm.ainvoke:
\* the handle is set
ExchangeReflectionEnter ==
  /\ graph = "exchange" /\ pc = REFLECTION
  /\ step < RecursionLimit
  /\ CanGrow(1)
  /\ pc' = LLMCallOf(REFLECTION)
  /\ llm_handles' = lazy_llm(llm_handles, "reflection_llm")
  /\ UNCHANGED <<env, status, used_topics, step, llm_raw, messages, next_node, result, tool, call, chat>>

\* ExchangeGraph._reflection_node after the LLM has answered.  No edge leaves
\* the node: the graph ends after it, whatever next_node says.
ExchangeReflection ==
  /\ graph = "exchange" /\ pc = LLMCallOf(REFLECTION)
  /\ step' = step + 1
  /\ \E should_continue \in BOOLEAN, reason \in {TEXT_OK} :
       /\ next_node' = reflection_next(should_continue, messages)
       /\ messages' = add_messages(messages, <<SystemMessage(reason)>>)
       /\ llm_raw' = [should_continue |-> should_continue, reason |-> reason]
  /\ pc' = END
  /\ UNCHANGED <<env, status, used_topics, llm_handles, result, tool, call, chat>>

\* ExchangeGraph.serve after the graph has ended
ExchangeServeReturn ==
  /\ graph = "exchange" /\ pc = END
  /\ IF last_answer(messages) # 0
     THEN /\ pc' = "returned"
          /\ result' = Returned(strip(messages[last_answer(messages)].content))
     ELSE /\ pc' = "raised"
          /\ result' = Raised("RuntimeError")
  /\ UNCHANGED <<env, status, used_topics, llm_handles, step, llm_raw, messages, next_node, tool, call, chat>>

ExchangeInit ==
  /\ transport \in {"SLIM", "NATS"}
  /\ graph = "exchange"
  /\ long_run = FALSE
  /\ sched = "turns"
  /\ echo = FALSE
  /\ prompt \in Prompts
  /\ pc = "serve"
  /\ messages = <<>>
  /\ next_node = ""
  /\ step = 0
  /\ result = NoResult
  /\ llm_raw = AIMessage(<<>>, <<>>)
  /\ tool = IdleTool
  /\ call = IdleCall
  /\ chat = IdleChat
  /\ status = <<>>
  /\ used_topics = {}
  /\ llm_handles = {}
  /\ http_status = 0
  /\ timeout_env = "unset"

ExchangeNext ==
  \/ ExchangeServe
  \/ ExchangeSupervisor
  \/ ExchangeGeneral
  \/ \E node \in Brokers : ExchangeBrokerEnter(node)
  \/ \E node \in Brokers : ExchangeBrokerNode(node)
  \/ ExchangeLLMRaises
  \/ ExchangeGetLLMRaises
  \/ ExchangeCancelled
  \/ ExchangeReflectionEnter
  \/ \E node \in Brokers : ExchangeRoute(node)
  \/ \E node \in Brokers : ExchangeToolsEnter(node)
  \/ \E node \in Brokers : ExchangeToolsSend(node)
  \/ \E node \in Brokers : ExchangeToolsNode(node)
  \/ ExchangeReflection
  \/ ExchangeServeReturn

ExchangeSpec == ExchangeInit /\ [][ExchangeNext]_vars

(* ------------------------ the routers alone ------------------------- *)

RouteStates == {"orders_route", "inventory_route"}

\* the messages a transcript handed to a router may end with: every type,
\* with or without the tool_calls attribute, the list empty or not
RouterMessages ==
  {m \in {Msg(t, c, h, calls, IF t = "tool" THEN 1 ELSE 0) :
            t \in {"human", "ai", "tool", "system"}, c \in {<<>>, TEXT_OK}, h \in BOOLEAN,
            calls \in {<<>>, <<ToolCall(1, "create_order", CreateOrderArgs(FARM_BRAZIL, 1, 1))>>,
                       <<ToolCall(1, "create_order", CreateOrderArgs(FARM_BRAZIL, 1, 1)),
                         ToolCall(2, "create_order", CreateOrderArgs(FARM_BRAZIL, 1, 1))>>}} :
     m.has_tool_calls \/ m.tool_calls = <<>>}

RouterInit ==
  /\ transport = "SLIM"
  /\ long_run = FALSE
  /\ sched = "turns"
  /\ echo = FALSE
  /\ prompt = PROMPT_BUY
  /\ \/ graph = "logistic" /\ pc = "orders_route"
     \/ graph = "exchange" /\ pc \in RouteStates
  /\ \E m \in RouterMessages : messages \in {<<m>>, <<HumanMessage(prompt), m>>}
  /\ next_node = ""
  /\ step = 1
  /\ result = NoResult
  /\ llm_raw = AIMessage(<<>>, <<>>)
  /\ tool = IdleTool
  /\ call = IdleCall
  /\ chat = IdleChat
  /\ status = <<>>
  /\ used_topics = {}
  /\ llm_handles = IF graph = "logistic" THEN {"orders_llm"}
                   ELSE {"supervisor_llm", IF pc = "orders_route" THEN "orders_llm" ELSE "inventory_llm"}
  /\ http_status = 0
  /\ timeout_env = "unset"

RouterNext ==
  \/ LogisticRoute
  \/ \E node \in Brokers : ExchangeRoute(node)

RouterSpec == RouterInit /\ [][RouterNext]_vars

Routed == pc \notin RouteStates

\* C7: a router never names the tools node when the last message of the
\* transcript is a tool-result message, whatever the message holds, a
\* non-empty tool_calls list included.
C7_ToolResultNeverToTools ==
  (Routed /\ Last(messages).type = "tool") =>
    pc = (IF graph = "logistic" THEN END ELSE REFLECTION)

C7_Witness ==
  /\ Routed
  /\ Last(messages).type = "tool"
  /\ Last(messages).has_tool_calls
  /\ Len(Last(messages).tool_calls) > 0
  /\ pc = REFLECTION

\* C8: when the last message is not a tool-result message, a router names the
\* tools node if and only if the message declares at least one tool call; with
\* an empty list or without the attribute it names the terminal node.
C8_ToolsIffToolCalls ==
  (Routed /\ Last(messages).type # "tool") =>
    IF Last(messages).has_tool_calls /\ Len(Last(messages).tool_calls) >= 1
    THEN pc \in {ORDERS_TOOLS, INVENTORY_TOOLS}
    ELSE pc = (IF graph = "logistic" THEN END ELSE REFLECTION)

C8_Witness ==
  /\ Routed
  /\ Last(messages).type = "ai"
  /\ Last(messages).has_tool_calls
  /\ Last(messages).tool_calls = <<>>
  /\ pc = REFLECTION

(* ---------------------- claims on the exchange graph ---------------- *)

\* the transcript a node found, seen from the state after the node appended
\* its one message
Before == SubSeq(messages, 1, Len(messages) - 1)

HasFailureWord(text) ==
  \E w \in {<<"e","r","r","o","r">>, <<"f","a","i","l","e","d">>, <<"t","i","m","e","o","u","t">>} :
    IsSubstr(w, lower(text))

\* a tool result of the most recent tool-calling AI message of msgs signals a
\* failure
FailedToolResult(msgs) ==
  \E n \in 1..Len(msgs) :
    /\ msgs[n].type = "ai" /\ msgs[n].tool_calls # <<>>
    /\ \A b \in (n + 1)..Len(msgs) : ~(msgs[b].type = "ai" /\ msgs[b].tool_calls # <<>>)
    /\ \E i \in 1..Len(msgs) :
         /\ msgs[i].type = "tool"
         /\ \E k \in 1..Len(msgs[n].tool_calls) : msgs[n].tool_calls[k].id = msgs[i].tool_call_id
         /\ HasFailureWord(msgs[i].content)

\* C9: in the inventory and orders nodes of the exchange graph, when a tool
\* result of the most recent tool-calling AI message contains error, failed or
\* timeout in any case and the reply of the LLM carries tool calls, the message
\* appended is the fixed apology with an empty tool-call list; the tools node
\* is not entered on such a reply.
C9_SafetyNet ==
  /\ (graph = "exchange" /\ pc \in RouteStates /\ FailedToolResult(Before)
        /\ llm_raw.tool_calls # <<>>)
       => /\ Last(messages).type = "ai"
          /\ Last(messages).tool_calls = <<>>
          /\ Last(messages).content \in {INVENTORY_APOLOGY, ORDERS_APOLOGY}
          /\ Last(messages).content =
               (IF pc = "inventory_route" THEN INVENTORY_APOLOGY ELSE ORDERS_APOLOGY)
  /\ (graph = "exchange" /\ pc \in {INVENTORY_TOOLS, ORDERS_TOOLS}) => ~FailedToolResult(Before)

\* the LLM asked for tools after a farm had answered with a text in capitals
C9_Witness ==
  /\ graph = "exchange" /\ pc \in RouteStates
  /\ llm_raw.tool_calls # <<>>
  /\ FailedToolResult(Before)
  /\ \E i \in 1..Len(Before) : Before[i].type = "tool" /\ Before[i].content = TIMEOUT_TEXT
  /\ Last(messages).content = ORDERS_APOLOGY

\* the last message of msgs and the one before it of the same role have the
\* same text, which is not empty
LastTwoSameRoleIdentical(msgs) ==
  \E j \in 1..(Len(msgs) - 1) :
    /\ msgs[j].type = Last(msgs).type
    /\ \A k \in (j + 1)..(Len(msgs) - 1) : msgs[k].type # Last(msgs).type
    /\ msgs[j].content = Last(msgs).content
    /\ Last(msgs).content # <<>>

\* C10: the reflection step decides to end whenever the last two messages of
\* one role are textually identical, also on a verdict should_continue = true.
C10_DuplicateForcesEnd ==
  (graph = "exchange" /\ messages # <<>> /\ Last(messages).type = "system"
     /\ LastTwoSameRoleIdentical(Before))
    => next_node = END

(* ------------------- claims on the reflection loop ------------------- *)

\* the reflection node has just run: its SystemMessage ends the transcript
Reflected == graph = "exchange" /\ messages # <<>> /\ Last(messages).type = "system"

\* C11: after the reflection step of the exchange graph, a decision to
\* continue (next_node is the supervisor) hands control to the supervisor
\* node, and a decision to stop (next_node is END) ends the graph.
C11_ReflectionLoops ==
  Reflected =>
    /\ next_node = SUPERVISOR => pc = SUPERVISOR
    /\ next_node = END => pc \in {END, "returned", "raised"}

(* ----------------- the graphs of the logistic agents ---------------- *)

\* the node of an agent's graph, on the text of the last message
agent_node(a, text) ==
  IF a = "shipper" THEN shipper_node(text)
  ELSE IF a = "farm" THEN farm_node(text)
  ELSE accountant_node(text)

\* <Agent>.ainvoke up to the invocation of the graph: the user message
\* becomes the transcript, and the entry point is the agent's only node
AgentInvoke ==
  /\ graph \in Agents /\ pc = "serve"
  /\ messages' = <<HumanMessage(prompt)>>
  /\ pc' = graph
  /\ UNCHANGED <<env, status, used_topics, llm_handles, step, llm_raw, next_node, result, tool, call, chat>>

\* the node of the agent: its reply joins the transcript and the graph ends.
\* The farm node extracts the status of the stripped text.
AgentNode ==
  /\ graph \in Agents /\ pc = graph
  /\ step < RecursionLimit
  /\ step' = step + 1
  /\ \E text \in {Last(messages).content} :
       /\ messages' = add_messages(messages, <<AIMessage(agent_node(graph, text), <<>>)>>)
       /\ status' = IF graph = "farm" THEN extract_status(strip(text)) ELSE status
  /\ pc' = END
  /\ UNCHANGED <<env, used_topics, llm_handles, llm_raw, next_node, result, tool, call, chat>>

\* <Agent>.ainvoke after the graph has ended: the last AIMessage with
\* non-blank content, stripped, or else the last message
AgentReturn ==
  /\ graph \in Agents /\ pc = END
  /\ result' = Returned(strip(IF last_answer(messages) # 0
                              THEN messages[last_answer(messages)].content
                              ELSE Last(messages).content))
  /\ pc' = "returned"
  /\ UNCHANGED <<env, status, used_topics, llm_handles, step, llm_raw, messages, next_node, tool, call, chat>>

TEXT_HELLO == <<"h","e","l","l","o">>

TEXT_STATUS == <<"S","t","a","t","u","s",":"," ">>

TEXT_DONE == <<"_","D","O","N","E">>

\* the statuses, and the statuses in lower case
StatusTexts == {STATUS_LOOKUP[i] : i \in 1..Len(STATUS_LOOKUP)}

\* the texts an agent receives: a status in either case, or none, alone or
\* inside a longer text; texts with two statuses; the order text; the idle
\* notices of the agents
InboundTexts ==
  {p \o c \o s :
     p \in {<<>>, <<" ">>, <<"x">>, TEXT_STATUS},
     c \in StatusTexts \cup {lower(t) : t \in StatusTexts} \cup {<<>>, TEXT_HELLO},
     s \in {<<>>, <<"\n">>, TEXT_DONE}}
  \cup {RECEIVED_ORDER \o <<" ">> \o CUSTOMS_CLEARANCE,
        PAYMENT_COMPLETE \o <<" ">> \o RECEIVED_ORDER,
        STATUS_UNKNOWN \o <<" ">> \o DELIVERED,
        order_text(1, 1), SHIPPER_IDLE, ACCOUNTANT_IDLE, FARM_IDLE}

\* an agent is handed one inbound text
AgentInit ==
  /\ transport = "SLIM"
  /\ graph \in Agents
  /\ long_run = FALSE
  /\ sched = "turns"
  /\ echo = FALSE
  /\ prompt \in InboundTexts
  /\ pc = "serve"
  /\ messages = <<>>
  /\ next_node = ""
  /\ step = 0
  /\ result = NoResult
  /\ llm_raw = AIMessage(<<>>, <<>>)
  /\ status = <<>>
  /\ used_topics = {}
  /\ llm_handles = {}
  /\ http_status = 0
  /\ timeout_env = "unset"
  /\ tool = IdleTool
  /\ call = IdleCall
  /\ chat = IdleChat

AgentNext ==
  \/ AgentInvoke
  \/ AgentNode
  \/ AgentReturn

AgentSpec == AgentInit /\ [][AgentNext]_vars

(* ---------------------- claims on the agents ------------------------ *)

\* the agent's node has replied to the inbound text
Replied(a) == graph = a /\ pc \in {END, "returned"}

\* the inbound text and the reply of the node
Inbound == messages[1].content

AgentReply == messages[2].content

\* C12: the Shipper replies CUSTOMS_CLEARANCE to every inbound text whose
\* extracted status is HANDOVER_TO_SHIPPER, DELIVERED to every text whose
\* extracted status is PAYMENT_COMPLETE, and its idle notice to every other.
C12_ShipperTransition ==
  Replied("shipper") =>
    AgentReply = (IF extract_status(Inbound) = HANDOVER_TO_SHIPPER THEN CUSTOMS_CLEARANCE
                  ELSE IF extract_status(Inbound) = PAYMENT_COMPLETE THEN DELIVERED
                  ELSE SHIPPER_IDLE)

\* C13: the Accountant replies PAYMENT_COMPLETE to every inbound text whose
\* extracted status is CUSTOMS_CLEARANCE and its idle notice to every other.
C13_AccountantTransition ==
  Replied("accountant") =>
    AgentReply = (IF extract_status(Inbound) = CUSTOMS_CLEARANCE THEN PAYMENT_COMPLETE
                  ELSE ACCOUNTANT_IDLE)

\* C14: the Farm replies HANDOVER_TO_SHIPPER to every inbound text whose
\* extracted status is RECEIVED_ORDER and its idle notice to every other.
C14_FarmTransition ==
  Replied("farm") =>
    /\ AgentReply = (IF extract_status(Inbound) = RECEIVED_ORDER THEN HANDOVER_TO_SHIPPER
                     ELSE FARM_IDLE)
    /\ pc = "returned" => result = Returned(AgentReply)

\* the farm answered the order text, a status inside a sentence
C14_Witness ==
  /\ Replied("farm") /\ pc = "returned"
  /\ Inbound = order_text(1, 1)
  /\ result = Returned(HANDOVER_TO_SHIPPER)

\* C15: no agent raises on any inbound text, and a reply that is not the
\* next status of the workflow contains the upper-case marker IDLE.
C15_IdleMarker ==
  graph \in Agents =>
    /\ result.kind # "raised"
    /\ pc \in {END, "returned"} =>
         \/ AgentReply \in StatusTexts
         \/ IsSubstr(<<"I","D","L","E">>, AgentReply)

(* ---------------------- claims on extract_status -------------------- *)

\* the farm node has extracted the status of its input
Extracted == graph = "farm" /\ pc \in {END, "returned"}

\* the text handed to extract_status
Raw == strip(messages[1].content)

\* the statuses of the workflow, without the sentinel STATUS_UNKNOWN
WorkflowStatuses == StatusTexts \ {STATUS_UNKNOWN}

\* C16: extract_status returns a member of the status enumeration for every
\* text, never an absent value, and STATUS_UNKNOWN for the empty text.
C16_ExtractTotal ==
  Extracted =>
    /\ status \in StatusTexts
    /\ Raw = <<>> => status = STATUS_UNKNOWN

\* the status of the empty text has been extracted
C16_Witness == Extracted /\ messages[1].content = <<>> /\ status = STATUS_UNKNOWN

\* C17: extract_status returns STATUS_UNKNOWN exactly when no status token of
\* the workflow is a substring of the upper-cased text, so that a token in
\* lower or mixed case yields its status.
C17_ExtractUpperCased ==
  Extracted =>
    (status = STATUS_UNKNOWN <=> ~\E t \in WorkflowStatuses : IsSubstr(t, upper(Raw)))

\* token is in text next to a word character: it is part of a longer word
Embedded(token, text) ==
  \E i \in 0..(Len(text) - Len(token)) :
    /\ SubSeq(text, i + 1, i + Len(token)) = token
    /\ \/ i > 0 /\ IsWordChar(text[i])
       \/ i + Len(token) < Len(text) /\ IsWordChar(text[i + Len(token) + 1])

\* C18: extract_status matches by substring: a text with a status token
\* inside a longer word yields the status of a token it contains, which is
\* that token's when the text contains no other.
C18_ExtractSubstring ==
  Extracted =>
    \A t \in StatusTexts :
      Embedded(t, Raw) =>
        /\ IsSubstr(status, Raw)
        /\ status \in StatusTexts
        /\ (\A u \in StatusTexts \ {t} : ~IsSubstr(u, Raw)) => status = t

\* the status of HANDOVER_TO_SHIPPER_DONE has been extracted
C18_Witness ==
  /\ Extracted
  /\ messages[1].content = HANDOVER_TO_SHIPPER \o TEXT_DONE
  /\ status = HANDOVER_TO_SHIPPER

(* ------------- the summary of a broadcast's responses --------------- *)

\* responses of one broadcast the summary is studied on
MaxResponses == 3

TEXT_IDLE_NOTHING == <<"i","d","l","e",","," ","n","o","t","h","i","n","g"," ","t","o"," ","d","o">>

TEXT_DELIVERED_IDLE == <<"D","E","L","I","V","E","R","E","D",","," ","n","o","w"," ","I","d","l","e">>

TEXT_DELIVERED_MIXED == <<"D","e","l","i","v","e","r","e","d"," ","t","o","d","a","y">>

TEXT_UNDELIVERED == <<"U","N","D","E","L","I","V","E","R","E","D">>

TEXT_SHIPPED_FINAL == <<"S","H","I","P","P","E","D"," ","(","f","i","n","a","l",")">>

\* the responses a broadcast may collect.  Their texts are statuses, idle
\* notices with and without the word delivered, the word delivered in mixed
\* case and inside a longer word, a status that ends like a final summary,
\* and blank texts; one reply has a blank first part, one has no name, one
\* has no part, one is not a reply.
BroadcastResponses ==
  {Response(TRUE, TRUE, NAME_SHIPPER, <<t>>) :
     t \in {HANDOVER_TO_SHIPPER, DELIVERED, TEXT_DELIVERED_IDLE, SHIPPER_IDLE,
            TEXT_UNDELIVERED, <<" ">>}}
  \cup {Response(TRUE, TRUE, NAME_ACCOUNTANT, <<t>>) :
          t \in {PAYMENT_COMPLETE, TEXT_DELIVERED_MIXED}}
  \cup {Response(TRUE, TRUE, NAME_SHIPPER, <<<<" ">>, DELIVERED>>),
        Response(TRUE, TRUE, NAME_SHIPPER, <<TEXT_SHIPPED_FINAL>>),
        Response(TRUE, FALSE, <<>>, <<CUSTOMS_CLEARANCE>>),
        Response(TRUE, TRUE, NAME_FARM, <<>>),
        Response(FALSE, FALSE, <<>>, <<>>)}

\* the responses of the aggregator scenario
ScenarioResponses ==
  <<Response(TRUE, TRUE, NAME_SHIPPER, <<HANDOVER_TO_SHIPPER>>),
    Response(TRUE, TRUE, NAME_SHIPPER, <<TEXT_IDLE_NOTHING>>),
    Response(TRUE, TRUE, NAME_ACCOUNTANT, <<PAYMENT_COMPLETE>>),
    Response(TRUE, TRUE, NAME_SHIPPER, <<DELIVERED>>)>>

\* a create_order call whose broadcast has collected its responses and is
\* about to return
AggregateInit ==
  /\ transport = "SLIM"
  /\ graph = "logistic"
  /\ long_run = FALSE
  /\ sched = "turns"
  /\ echo = FALSE
  /\ prompt = PROMPT_BUY
  /\ pc = "orders_tools"
  /\ llm_raw = AIMessage(<<>>, <<ToolCall(5, "create_order", CreateOrderArgs(FARM_BRAZIL, 1, 1))>>)
  /\ messages = <<HumanMessage(prompt), llm_raw>>
  /\ next_node = ""
  /\ step = 1
  /\ result = NoResult
  /\ status = <<>>
  /\ used_topics = {}
  /\ llm_handles = {"orders_llm"}
  /\ http_status = 0
  /\ timeout_env = "unset"
  /\ tool = [idx |-> 1, out |-> <<>>]
  /\ call = [IdleCall EXCEPT !.pc = "broadcast", !.attempts = 1, !.transport = TRUE,
                             !.client = TRUE, !.args = CreateOrderArgs(FARM_BRAZIL, 1, 1)]
  /\ \E rs \in {ScenarioResponses}
            \cup UNION {[1..n -> BroadcastResponses] : n \in 0..MaxResponses} :
       chat = [broadcast_message(<<>>, GROUP_CHAT_TOPIC, recipients(FARM_BRAZIL), DELIVERED,
                                 TRUE, BROADCAST_TIMEOUT)
                 EXCEPT !.inbox = [a \in Agents |-> <<>>], !.responses = rs]

AggregateNext ==
  \/ BroadcastReturn
  \/ ToolFinish

AggregateSpec == AggregateInit /\ [][AggregateNext]_vars

(* ----------------------- claims on the summary ---------------------- *)

\* the summary of the responses has been returned
Summarized == call.pc = "returned" /\ call.attempts = 1

\* the response is one the loop skips for its text: no text, or an idle text
Dropped(response) ==
  /\ response.ok
  /\ \/ first_text(response.parts) = <<>>
     \/ IsSubstr(<<"i","d","l","e">>, lower(first_text(response.parts)))

\* what the loop has gathered after the first n responses
Gathered(n) == summarize_loop(SummaryInit, SubSeq(chat.responses, 1, n))

\* the responses with the given indices left out
RECURSIVE Without(_, _)
Without(responses, drop) ==
  IF responses = <<>> THEN <<>>
  ELSE Without(SubSeq(responses, 1, Len(responses) - 1), drop)
         \o (IF Len(responses) \in drop THEN <<>> ELSE <<Last(responses)>>)

\* C19: a response whose text is empty or contains idle in any letter case
\* adds nothing to what the loop gathers (no status, no sender, no delivered
\* segment), whatever else its text holds, and the summary is the summary of
\* the other responses.
C19_IdleDropped ==
  Summarized =>
    /\ \A i \in 1..Len(chat.responses) :
         Dropped(chat.responses[i]) => Gathered(i) = Gathered(i - 1)
    /\ call.result =
         summarize_a2a_responses(
           Without(chat.responses,
                   {i \in 1..Len(chat.responses) : Dropped(chat.responses[i])}))

\* an idle text with the word DELIVERED after a status of the same sender
C19_Witness ==
  /\ Summarized
  /\ Len(chat.responses) = 2
  /\ chat.responses[1] = Response(TRUE, TRUE, NAME_SHIPPER, <<HANDOVER_TO_SHIPPER>>)
  /\ chat.responses[2] = Response(TRUE, TRUE, NAME_SHIPPER, <<TEXT_DELIVERED_IDLE>>)
  /\ call.result = SUMMARY_PREFIX \o NAME_SHIPPER \o <<":", " ">> \o HANDOVER_TO_SHIPPER

\* the response is kept and its text has the whole word delivered
IsDelivered(response) ==
  /\ response.ok
  /\ ~Dropped(response)
  /\ WordSearchIgnoreCase(<<"d","e","l","i","v","e","r","e","d">>, first_text(response.parts))

\* the segment of a delivered response
DeliveredSegment(response) ==
  (IF response.has_name THEN response.name ELSE Unknown)
    \o <<":", " ">> \o first_text(response.parts)

\* C20: a kept response whose text has the whole word delivered, in any
\* letter case, becomes a segment "{sender}: {text}" of its own and leaves
\* the status lists of the senders as they were, and the summary shows the
\* segment and ends with (final).
C20_DeliveredOwnSegment ==
  Summarized =>
    \A i \in 1..Len(chat.responses) :
      IsDelivered(chat.responses[i]) =>
        /\ Gathered(i) =
             [Gathered(i - 1) EXCEPT
                !.delivered_seen = TRUE,
                !.delivered_segments = Append(@, DeliveredSegment(chat.responses[i]))]
        /\ IsSubstr(DeliveredSegment(chat.responses[i]), call.result)
        /\ SubSeq(call.result, Len(call.result) - Len(SUMMARY_FINAL) + 1, Len(call.result))
             = SUMMARY_FINAL

\* a sender with an aggregated segment sends DELIVERED
C20_Witness ==
  /\ Summarized
  /\ Len(chat.responses) = 2
  /\ chat.responses[1] = Response(TRUE, TRUE, NAME_SHIPPER, <<HANDOVER_TO_SHIPPER>>)
  /\ chat.responses[2] = Response(TRUE, TRUE, NAME_SHIPPER, <<DELIVERED>>)
  /\ call.result = SUMMARY_PREFIX \o NAME_SHIPPER \o <<":", " ">> \o HANDOVER_TO_SHIPPER
                     \o <<" ", "|", " ">> \o NAME_SHIPPER \o <<":", " ">> \o DELIVERED
                     \o SUMMARY_FINAL

\* the sender named by a response
SenderOf(response) == IF response.has_name THEN response.name ELSE Unknown

\* the response adds a status to the list of its sender: it is well formed,
\* its text is neither dropped nor a delivered text
IsStatus(response) ==
  response.ok /\ ~Dropped(response) /\ ~IsDelivered(response)

\* the statuses of a sender among the responses, in the order of receipt
RECURSIVE StatusesOf(_, _)
StatusesOf(name, responses) ==
  IF responses = <<>> THEN <<>>
  ELSE StatusesOf(name, SubSeq(responses, 1, Len(responses) - 1))
         \o (IF IsStatus(Last(responses)) /\ SenderOf(Last(responses)) = name
             THEN <<first_text(Last(responses).parts)>> ELSE <<>>)

\* a list without the entries that equal the entry just before them
RECURSIVE AdjacentDedup(_)
AdjacentDedup(s) ==
  IF Len(s) <= 1 THEN s
  ELSE AdjacentDedup(SubSeq(s, 1, Len(s) - 1))
         \o (IF s[Len(s)] = s[Len(s) - 1] THEN <<>> ELSE <<s[Len(s)]>>)

\* C21: the status list of a sender is the sender's statuses in the order of
\* receipt without the ones that equal the status the same sender sent just
\* before: A, A gives A and A, B, A gives A, B, A, and the statuses of other
\* senders in between do not separate two equal statuses of a sender.
C21_AdjacentDedup ==
  Summarized =>
    \E acc \in {Gathered(Len(chat.responses))} :
      /\ \A i \in 1..Len(chat.responses) :
           IsStatus(chat.responses[i]) =>
             InSeq(SenderOf(chat.responses[i]), acc.agent_first_order)
      /\ \A k \in 1..Len(acc.agent_first_order) :
           acc.agent_statuses[k] =
             AdjacentDedup(StatusesOf(acc.agent_first_order[k], chat.responses))

\* a sender repeats a status after another status of its own
C21_Witness ==
  /\ Summarized
  /\ Len(chat.responses) = 3
  /\ chat.responses[1] = Response(TRUE, TRUE, NAME_SHIPPER, <<HANDOVER_TO_SHIPPER>>)
  /\ chat.responses[2] = Response(TRUE, TRUE, NAME_SHIPPER, <<TEXT_UNDELIVERED>>)
  /\ chat.responses[3] = Response(TRUE, TRUE, NAME_SHIPPER, <<HANDOVER_TO_SHIPPER>>)
  /\ call.result = SUMMARY_PREFIX \o NAME_SHIPPER \o <<":", " ">> \o HANDOVER_TO_SHIPPER
                     \o <<",", " ">> \o TEXT_UNDELIVERED
                     \o <<",", " ">> \o HANDOVER_TO_SHIPPER

\* a sender repeats a status with the status of another sender in between
C21_WitnessInterleaved ==
  /\ Summarized
  /\ Len(chat.responses) = 3
  /\ chat.responses[1] = Response(TRUE, TRUE, NAME_SHIPPER, <<HANDOVER_TO_SHIPPER>>)
  /\ chat.responses[2] = Response(TRUE, TRUE, NAME_ACCOUNTANT, <<PAYMENT_COMPLETE>>)
  /\ chat.responses[3] = Response(TRUE, TRUE, NAME_SHIPPER, <<HANDOVER_TO_SHIPPER>>)
  /\ call.result = SUMMARY_PREFIX \o NAME_SHIPPER \o <<":", " ">> \o HANDOVER_TO_SHIPPER
                     \o <<" ", "|", " ">> \o NAME_ACCOUNTANT \o <<":", " ">> \o PAYMENT_COMPLETE

\* the response survives the filtering of the loop
Survives(response) == IsStatus(response) \/ IsDelivered(response)

\* C22: the summary is the literal "No non-idle status updates received."
\* exactly when no response survives the filtering, that is when the loop
\* ends with no sender and no delivered segment; so it is for no response at
\* all and for responses that are all idle, empty or malformed.
C22_NoUpdatesLiteral ==
  Summarized =>
    \E acc \in {Gathered(Len(chat.responses))} :
      /\ (call.result = NO_UPDATES)
           <=> (\A i \in 1..Len(chat.responses) : ~Survives(chat.responses[i]))
      /\ (call.result = NO_UPDATES)
           <=> (acc.agent_first_order = <<>> /\ acc.delivered_segments = <<>>)

\* an idle reply, a reply without text and an object that is not a reply
C22_Witness ==
  /\ Summarized
  /\ Len(chat.responses) = 3
  /\ chat.responses[1] = Response(TRUE, TRUE, NAME_SHIPPER, <<SHIPPER_IDLE>>)
  /\ chat.responses[2] = Response(TRUE, TRUE, NAME_FARM, <<>>)
  /\ chat.responses[3] = Response(FALSE, FALSE, <<>>, <<>>)
  /\ call.result = NO_UPDATES

\* no response at all
C22_WitnessEmpty ==
  Summarized /\ chat.responses = <<>> /\ call.result = NO_UPDATES

\* the senders of the statuses among the responses, each once, in the order
\* of their first status
RECURSIVE FirstSeenOrder(_)
FirstSeenOrder(responses) ==
  IF responses = <<>> THEN <<>>
  ELSE LET before == FirstSeenOrder(SubSeq(responses, 1, Len(responses) - 1))
           name   == SenderOf(Last(responses))
       IN IF IsStatus(Last(responses)) /\ ~InSeq(name, before)
          THEN Append(before, name) ELSE before

\* the segments of the delivered responses in the order of receipt
RECURSIVE DeliveredInOrder(_)
DeliveredInOrder(responses) ==
  IF responses = <<>> THEN <<>>
  ELSE DeliveredInOrder(SubSeq(responses, 1, Len(responses) - 1))
         \o (IF IsDelivered(Last(responses)) THEN <<DeliveredSegment(Last(responses))>>
             ELSE <<>>)

\* the segments a summary of the responses is to show, in their order
ExpectedSegments(responses) ==
  LET order == FirstSeenOrder(responses)
  IN [k \in 1..Len(order) |->
        order[k] \o <<":", " ">>
          \o join(<<",", " ">>, AdjacentDedup(StatusesOf(order[k], responses)))]
     \o DeliveredInOrder(responses)

\* the summary without its prefix and without its mark of a final summary
SummaryBody(text, final) ==
  SubSeq(text, Len(SUMMARY_PREFIX) + 1,
         Len(text) - (IF final THEN Len(SUMMARY_FINAL) ELSE 0))

\* C23: the summary shows one segment for each sender, in the order in which
\* the senders sent their first status that is not a delivered one, and after
\* them the delivered segments in the order of their receipt; nothing is
\* sorted.
C23_SegmentOrder ==
  Summarized =>
    \E acc \in {Gathered(Len(chat.responses))} :
      /\ acc.agent_first_order = FirstSeenOrder(chat.responses)
      /\ acc.delivered_segments = DeliveredInOrder(chat.responses)
      /\ call.result # NO_UPDATES =>
           SummaryBody(call.result, acc.delivered_seen)
             = join(<<" ", "|", " ">>, ExpectedSegments(chat.responses))

\* a delivered reply received before a status of its sender, and a sender
\* whose name is not the first in the alphabet sending first
C23_Witness ==
  /\ Summarized
  /\ Len(chat.responses) = 3
  /\ chat.responses[1] = Response(TRUE, TRUE, NAME_SHIPPER, <<HANDOVER_TO_SHIPPER>>)
  /\ chat.responses[2] = Response(TRUE, TRUE, NAME_ACCOUNTANT, <<TEXT_DELIVERED_MIXED>>)
  /\ chat.responses[3] = Response(TRUE, TRUE, NAME_ACCOUNTANT, <<PAYMENT_COMPLETE>>)
  /\ call.result = SUMMARY_PREFIX \o NAME_SHIPPER \o <<":", " ">> \o HANDOVER_TO_SHIPPER
                     \o <<" ", "|", " ">> \o NAME_ACCOUNTANT \o <<":", " ">> \o PAYMENT_COMPLETE
                     \o <<" ", "|", " ">> \o NAME_ACCOUNTANT \o <<":", " ">> \o TEXT_DELIVERED_MIXED
                     \o SUMMARY_FINAL

\* the text ends with the mark of a final summary
EndsFinal(text) ==
  /\ Len(text) >= Len(SUMMARY_FINAL)
  /\ SubSeq(text, Len(text) - Len(SUMMARY_FINAL) + 1, Len(text)) = SUMMARY_FINAL

\* a delivered response is among the responses
DeliveredSeen == \E i \in 1..Len(chat.responses) : IsDelivered(chat.responses[i])

\* C24 (as stated): a summary that is not the literal for no update is the
\* prefix "Order status updates: " followed by the segments joined with
\* " | ", and it ends with " (final)" exactly when a delivered response was
\* seen.
C24_FinalIffDelivered ==
  Summarized /\ call.result # NO_UPDATES =>
    /\ SubSeq(call.result, 1, Len(SUMMARY_PREFIX)) = SUMMARY_PREFIX
    /\ EndsFinal(call.result) <=> DeliveredSeen

\* C24 (amended): a summary that is not the literal for no update is the
\* prefix "Order status updates: ", the segments joined with " | ", and
\* after them " (final)" exactly when a delivered response was seen; a
\* status that itself ends with " (final)" is shown as it is.
C24_SummaryShape ==
  Summarized /\ call.result # NO_UPDATES =>
    call.result =
      SUMMARY_PREFIX \o join(<<" ", "|", " ">>, ExpectedSegments(chat.responses))
        \o (IF DeliveredSeen THEN SUMMARY_FINAL ELSE <<>>)

\* the summary of the aggregator scenario
C24_Witness ==
  /\ Summarized
  /\ chat.responses = ScenarioResponses
  /\ call.result = SUMMARY_PREFIX \o NAME_SHIPPER \o <<":", " ">> \o HANDOVER_TO_SHIPPER
                     \o <<" ", "|", " ">> \o NAME_ACCOUNTANT \o <<":", " ">> \o PAYMENT_COMPLETE
                     \o <<" ", "|", " ">> \o NAME_SHIPPER \o <<":", " ">> \o DELIVERED
                     \o SUMMARY_FINAL

\* a summary without a delivered response whose last status ends with (final)
C24_WitnessNotFinal ==
  /\ Summarized
  /\ chat.responses = <<Response(TRUE, TRUE, NAME_SHIPPER, <<TEXT_SHIPPED_FINAL>>)>>
  /\ call.result = SUMMARY_PREFIX \o NAME_SHIPPER \o <<":", " ">> \o TEXT_SHIPPED_FINAL

\* C25: an object among the responses that lacks the fields of a reply does
\* not make the summary raise; the loop skips it and leaves the order of the
\* senders, their status lists, the delivered segments and the delivered flag
\* as they were, so that the summary is the summary of the other responses.
C25_MalformedSkipped ==
  /\ (\E i \in 1..Len(chat.responses) : ~chat.responses[i].ok) => call.pc # "raised"
  /\ Summarized =>
       /\ \A i \in 1..Len(chat.responses) :
            ~chat.responses[i].ok => Gathered(i) = Gathered(i - 1)
       /\ call.error = "none"
       /\ call.result =
            summarize_a2a_responses(
              Without(chat.responses,
                      {i \in 1..Len(chat.responses) : ~chat.responses[i].ok}))

\* an object that is not a reply between the statuses of two senders
C25_Witness ==
  /\ Summarized
  /\ Len(chat.responses) = 3
  /\ chat.responses[1] = Response(TRUE, TRUE, NAME_SHIPPER, <<HANDOVER_TO_SHIPPER>>)
  /\ chat.responses[2] = Response(FALSE, FALSE, <<>>, <<>>)
  /\ chat.responses[3] = Response(TRUE, TRUE, NAME_ACCOUNTANT, <<PAYMENT_COMPLETE>>)
  /\ call.result = SUMMARY_PREFIX \o NAME_SHIPPER \o <<":", " ">> \o HANDOVER_TO_SHIPPER
                     \o <<" ", "|", " ">> \o NAME_ACCOUNTANT \o <<":", " ">> \o PAYMENT_COMPLETE

(* ------------------ the summary run again on one list ---------------- *)

\* _summarize_a2a_responses as the process sees it: pc is "idle" between
\* runs and "loop" inside one, i counts the responses the loop has taken,
\* acc holds the accumulators (between runs: what the last run left),
\* returned the strings the runs have returned
IdleSummaryRun == [pc |-> "idle", i |-> 0, acc |-> SummaryInit, returned |-> <<>>]

\* a list of responses, to be summarised MaxRuns times
RerunInit ==
  /\ transport = "SLIM"
  /\ graph = "logistic"
  /\ long_run = FALSE
  /\ sched = "turns"
  /\ echo = FALSE
  /\ prompt = PROMPT_BUY
  /\ pc = "orders_tools"
  /\ llm_raw = AIMessage(<<>>, <<ToolCall(5, "create_order", CreateOrderArgs(FARM_BRAZIL, 1, 1))>>)
  /\ messages = <<HumanMessage(prompt), llm_raw>>
  /\ next_node = ""
  /\ step = 1
  /\ result = NoResult
  /\ status = <<>>
  /\ used_topics = {}
  /\ llm_handles = {"orders_llm"}
  /\ http_status = 0
  /\ timeout_env = "unset"
  /\ tool = [idx |-> 1, out |-> <<>>]
  /\ call = IdleSummaryRun
  /\ \E rs \in {ScenarioResponses}
            \cup UNION {[1..n -> BroadcastResponses] : n \in 0..MaxRerunResponses} :
       chat = [broadcast_message(<<>>, GROUP_CHAT_TOPIC, recipients(FARM_BRAZIL), DELIVERED,
                                 TRUE, BROADCAST_TIMEOUT)
                 EXCEPT !.inbox = [a \in Agents |-> <<>>], !.responses = rs]

\* a run begins: the four accumulators are created
SummarizeBegin ==
  /\ call.pc = "idle"
  /\ Len(call.returned) < MaxRuns
  /\ call' = [call EXCEPT !.pc = "loop", !.i = 0, !.acc = summarize_begin(call.acc)]
  /\ UNCHANGED <<env, status, used_topics, llm_handles, step, llm_raw, pc, messages, next_node,
                 result, tool, chat>>

\* one iteration of the loop over the responses
SummarizeLoop ==
  /\ call.pc = "loop"
  /\ call.i < Len(chat.responses)
  /\ call' = [call EXCEPT !.i = @ + 1, !.acc = summarize_step(call.acc, chat.responses[call.i + 1])]
  /\ UNCHANGED <<env, status, used_topics, llm_handles, step, llm_raw, pc, messages, next_node,
                 result, tool, chat>>

\* the loop is over and the run returns its text; the accumulators stay as
\* the run leaves them
SummarizeReturn ==
  /\ call.pc = "loop"
  /\ call.i = Len(chat.responses)
  /\ call' = [call EXCEPT !.pc = "idle", !.returned = Append(@, summary_text(call.acc))]
  /\ UNCHANGED <<env, status, used_topics, llm_handles, step, llm_raw, pc, messages, next_node,
                 result, tool, chat>>

RerunNext ==
  \/ SummarizeBegin
  \/ SummarizeLoop
  \/ SummarizeReturn

RerunSpec == RerunInit /\ [][RerunNext]_vars

\* C26: the runs of the summary on one list of responses return the same
\* string, whatever the runs before them left behind, and it is the string
\* of the list alone
C26_Deterministic ==
  /\ \A m, n \in 1..Len(call.returned) : call.returned[m] = call.returned[n]
  /\ \A n \in 1..Len(call.returned) : call.returned[n] = summarize_a2a_responses(chat.responses)

\* the list of the scenario was summarised twice; the first run had left its
\* statuses, its delivered segment and its flag behind
C26_Witness ==
  /\ chat.responses = ScenarioResponses
  /\ Len(call.returned) = 2
  /\ call.acc.delivered_seen
  /\ call.acc.agent_first_order = <<NAME_SHIPPER, NAME_ACCOUNTANT>>
  /\ call.returned[2] = SUMMARY_PREFIX \o NAME_SHIPPER \o <<":", " ">> \o HANDOVER_TO_SHIPPER
                           \o <<" ", "|", " ">> \o NAME_ACCOUNTANT \o <<":", " ">> \o PAYMENT_COMPLETE
                           \o <<" ", "|", " ">> \o NAME_SHIPPER \o <<":", " ">> \o DELIVERED
                           \o SUMMARY_FINAL

(* ------------- claims on the entry and the broadcast of create_order --- *)

\* the call under way, or ended and not yet taken by the tools node
CallMade == call.pc # "idle"

\* nothing of the network has been touched: no transport taken from the
\* factory, no client, no broadcast begun or ended
NoNetworkCall ==
  /\ ~call.transport
  /\ ~call.client
  /\ call.attempts = 0
  /\ chat = IdleChat
  /\ used_topics = {}

InvalidAmounts(args) == args.price <= 0 \/ args.quantity <= 0

BlankFarm(args) == strip(args.farm) = <<>>

\* the arguments of the tool call of the transcript
AskedArgs == messages[2].tool_calls[1].args

InvalidOrderReturns ==
  /\ (CallMade /\ InvalidAmounts(call.args)) =>
       /\ call.pc = "returned"
       /\ call.result = VALIDATION_PRICE_QUANTITY
       /\ call.error = "none"
       /\ NoNetworkCall
  /\ (CallMade /\ ~InvalidAmounts(call.args) /\ BlankFarm(call.args)) =>
       /\ call.pc = "returned"
       /\ call.result = VALIDATION_FARM
       /\ call.error = "none"
       /\ NoNetworkCall
  /\ (Len(messages) = 3 /\ InvalidAmounts(AskedArgs)) =>
       /\ messages[3].content = VALIDATION_PRICE_QUANTITY
       /\ used_topics = {}
  /\ (Len(messages) = 3 /\ ~InvalidAmounts(AskedArgs) /\ BlankFarm(AskedArgs)) =>
       /\ messages[3].content = VALIDATION_FARM
       /\ used_topics = {}

\* C27 as stated, for every transport: a create_order with a price or a
\* quantity that is not positive, or with a blank farm, returns its
\* validation string and raises nothing
C27_ValidationAlwaysReturns == InvalidOrderReturns

\* an order of no unit has ended by the exception of the transport check
C27_WitnessRaised ==
  /\ transport = "NATS"
  /\ call.pc = "raised"
  /\ call.error = "ValueError"
  /\ InvalidAmounts(call.args)
  /\ call.result = <<>>

\* C27: under the SLIM transport a create_order with a price or a quantity
\* that is not positive returns "Price and quantity must both be greater than
\* zero." as its value, and one with positive amounts and an empty or blank
\* farm returns "No farm provided. Please specify a farm."; neither raises,
\* takes a transport, creates a client or sends a broadcast, and the tools
\* node hands the string on as the content of the ToolMessage.
C27_ValidationReturns ==
  transport = "SLIM" => InvalidOrderReturns

\* an order of no unit has been refused
C27_Witness ==
  /\ transport = "SLIM"
  /\ call.pc = "returned"
  /\ call.args = CreateOrderArgs(FARM_BRAZIL, 0, 1)
  /\ call.result = VALIDATION_PRICE_QUANTITY
  /\ NoNetworkCall

\* an order for a blank farm has been refused
C27_WitnessFarm ==
  /\ transport = "SLIM"
  /\ call.pc = "returned"
  /\ call.args = CreateOrderArgs(<<" ">>, 1, 1)
  /\ call.result = VALIDATION_FARM
  /\ NoNetworkCall

\* C28: when the configured transport is not SLIM, create_order raises a
\* ValueError at once, whatever its arguments: no transport is taken, no
\* client is created, no broadcast is sent, no attempt is made or repeated,
\* and the tools node ends the call with one error ToolMessage.
C28_TransportFailsFast ==
  transport # "SLIM" =>
    /\ NoNetworkCall
    /\ call.pc \in {"idle", "raised"}
    /\ call.pc = "raised" => (call.error = "ValueError" /\ call.result = <<>>)
    /\ Len(messages) <= 3
    /\ Len(messages) = 3 => messages[3].content = ERROR_PREFIX \o <<"V">>

\* a valid order has been refused for the transport
C28_Witness ==
  /\ transport = "NATS"
  /\ call.pc = "raised"
  /\ call.error = "ValueError"
  /\ call.args = CreateOrderArgs(FARM_BRAZIL, 1, 1)
  /\ NoNetworkCall

\* a broadcast has been sent and has not been taken down
BroadcastSent == chat.topic # ""

\* C29: every broadcast of create_order goes to the shipper, the farm and
\* the accountant and to no one else, whatever the farm of the order, with
\* group_chat set, the end_message DELIVERED and a timeout of 60 seconds.
C29_FixedRecipients ==
  /\ call.pc = "broadcast" => BroadcastSent
  /\ BroadcastSent =>
       /\ chat.recipients = {"shipper", "farm", "accountant"}
       /\ chat.group_chat
       /\ chat.end_message = <<"D","E","L","I","V","E","R","E","D">>
       /\ chat.timeout = 60

\* the order of another farm has been broadcast and the three agents replied
C29_Witness ==
  /\ call.pc = "broadcast"
  /\ call.args.farm = FARM_TATOOINE
  /\ chat.recipients = {"shipper", "farm", "accountant"}
  /\ \A a \in Agents : \E i \in 1..Len(chat.responses) : chat.responses[i].name = AgentName(a)

\* C30: a create_order call broadcasts on a topic of its own: the topic of a
\* broadcast under way is not the topic of a broadcast that has ended.
C30_FreshTopic ==
  call.pc = "broadcast" => chat.topic \notin used_topics

\* a second broadcast of one serve is under way on the topic of the first
C30_TopicReused ==
  /\ call.pc = "broadcast"
  /\ chat.topic \in used_topics
  /\ Len(messages) = 4
  /\ messages[3].type = "tool"

(* ------------------ the serve calls of the two graphs --------------- *)

\* a serve call of the logistic graph or of the exchange graph
ServeInit == Init \/ ExchangeInit

ServeNext == Next \/ ExchangeNext

ServeSpec == ServeInit /\ [][ServeNext]_vars

(* --------------------- claims on the serve calls -------------------- *)

\* C31: a request leaves the structures shared by the process as startup
\* left them: of the graph object, the LLM handles that build_graph set to
\* None are still None whatever the serve call has done.
C31_SharedStateReadOnly ==
  graph \in {"logistic", "exchange"} => llm_handles = {}

\* the first request of the logistic graph has set the handle of its LLM
C31_HandleSet ==
  /\ graph = "logistic"
  /\ pc = "orders_route"
  /\ Len(messages) = 2
  /\ llm_handles = {"orders_llm"}
  /\ http_status = 0

\* the prompt is empty or holds white space only
BlankPrompt == strip(prompt) = <<>>

\* nothing of the graph has run: no transcript, no LLM handle, no tool call
NothingInvoked ==
  /\ messages = <<>>
  /\ llm_handles = {}
  /\ step = 0
  /\ call = IdleCall
  /\ used_topics = {}

\* C33: the handler of POST /agent/prompt answers 400 to a blank prompt
\* without a call of the LLM or of a tool, 504 when serve did not end within
\* the timeout, and 500 whenever serve raised for another reason.
C33_HandlerStatus ==
  http_status # 0 =>
    /\ pc = "cancelled" <=> http_status = 504
    /\ (pc = "raised" /\ BlankPrompt) => (http_status = 400 /\ NothingInvoked)
    /\ (pc = "never_awaited" /\ BlankPrompt) => http_status = 400
    /\ (pc = "raised" /\ ~BlankPrompt) => http_status = 500
    /\ pc = "returned" => http_status = 200

\* a prompt that is not blank has been answered with 400
C33_BadRequestForInternalError ==
  /\ http_status = 400
  /\ ~BlankPrompt
  /\ pc = "raised"
  /\ result = Raised("ValueError")

\* C32: within a serve call every step leaves the messages of the transcript
\* in place and in order: the transcript before the step is a prefix of the
\* transcript after it.
C32_TranscriptGrows == [][IsPrefix(messages, messages')]_vars

\* a transcript of the exchange graph that grew by the reply of a broker, the
\* result of its tool, the next reply and the reason of the reflection
C32_Witness ==
  /\ graph = "exchange"
  /\ Len(messages) = 5
  /\ messages[1].type = "human"
  /\ messages[2].type = "ai" /\ messages[2].tool_calls # <<>>
  /\ messages[3].type = "tool"
  /\ messages[4].type = "ai"
  /\ messages[5].type = "system"

\* a transcript of the logistic graph that grew by two replies and a result
C32_WitnessLogistic ==
  /\ graph = "logistic"
  /\ Len(messages) = 4
  /\ messages[3].type = "tool"
  /\ messages[4].type = "ai"

(* ------------------- further claims on the agents ------------------- *)

\* the place of a status in the declaration order of LogisticStatus
DeclarationRank(s) ==
  CHOOSE i \in 1..6 :
    s = <<RECEIVED_ORDER, HANDOVER_TO_SHIPPER, CUSTOMS_CLEARANCE, PAYMENT_COMPLETE,
          DELIVERED, STATUS_UNKNOWN>>[i]

\* C34: for a text with more than one status token extract_status returns
\* the token that comes first in the declaration order RECEIVED_ORDER,
\* HANDOVER_TO_SHIPPER, CUSTOMS_CLEARANCE, PAYMENT_COMPLETE, DELIVERED,
\* STATUS_UNKNOWN, wherever the tokens stand in the text.
C34_DeclarationOrderWins ==
  Extracted =>
    \A t \in StatusTexts :
      IsSubstr(t, Raw) =>
        /\ IsSubstr(status, Raw)
        /\ DeclarationRank(status) <= DeclarationRank(t)

\* the token declared first stands last in the text
C34_Witness ==
  /\ Extracted
  /\ Raw = PAYMENT_COMPLETE \o <<" ">> \o RECEIVED_ORDER
  /\ status = RECEIVED_ORDER

\* a text with the tokens STATUS_UNKNOWN and DELIVERED
C34_WitnessUnknownLast ==
  /\ Extracted
  /\ Raw = STATUS_UNKNOWN \o <<" ">> \o DELIVERED
  /\ status = DELIVERED

(* -------------------- the tools of the exchange --------------------- *)

TOOL_INVENTORY == "get_farm_yield_inventory"

TOOL_CREATE_ORDER == "create_order"

TOOL_ORDER_DETAILS == "get_order_details"

TOOL_ALL_FARMS == "get_all_farms_yield_inventory"

SinglePeerTools == {TOOL_INVENTORY, TOOL_CREATE_ORDER, TOOL_ORDER_DETAILS}

FarmKeys == <<<<"b","r","a","z","i","l">>, <<"c","o","l","o","m","b","i","a">>, <<"v","i","e","t","n","a","m">>>>

\* get_farm_card: the key of the card whose name is in the farm, <<>> for None
get_farm_card(farm) ==
  LET name == lower(strip(farm))
  IN IF IsSubstr(FarmKeys[1], name) THEN FarmKeys[1]
     ELSE IF IsSubstr(FarmKeys[2], name) THEN FarmKeys[2]
     ELSE IF IsSubstr(FarmKeys[3], name) THEN FarmKeys[3]
     ELSE <<>>

\* the name of the card of a farm; the cards are defined outside the
\* sources at hand and the key of the farm stands for the name
card_name(key) == key

\* the text of the error for a farm that has no card: the farm as the tool
\* shows it, then the names of the three cards
farm_not_recognized(shown) ==
  <<"F","a","r","m"," ","'">> \o shown \o <<"'"," ","n","o","t"," ","r","e","c","o","g","n","i","z","e","d","."," ","A","v","a","i","l","a","b","l","e"," ","f","a","r","m","s"," ","a","r","e",":"," ">>
    \o join(<<",", " ">>, <<card_name(FarmKeys[1]), card_name(FarmKeys[2]), card_name(FarmKeys[3])>>) \o <<".">>

\* the peer as the error texts of a tool show it: the farm as given, the farm
\* stripped and lowered, the order id
peer_shown(name, args) ==
  IF name = TOOL_INVENTORY THEN args.farm
  ELSE IF name = TOOL_CREATE_ORDER THEN lower(strip(args.farm))
  ELSE args.order_id

\* the text of the A2AAgentError raised inside the try block for a reply
\* that is no text: kind is "no_text", "error" or "unknown"
reply_error(name, args, kind, message) ==
  LET peer == peer_shown(name, args)
  IN IF name = TOOL_INVENTORY
     THEN IF kind = "no_text"
          THEN <<"F","a","r","m"," ","'">> \o peer \o <<"'"," ","r","e","t","u","r","n","e","d"," ","a"," ","r","e","s","u","l","t"," ","w","i","t","h","o","u","t"," ","t","e","x","t"," ","c","o","n","t","e","n","t",".">>
          ELSE IF kind = "error" THEN <<"E","r","r","o","r"," ","f","r","o","m"," ","f","a","r","m"," ","'">> \o peer \o <<"'",":"," ">> \o message
          ELSE <<"U","n","k","n","o","w","n"," ","r","e","s","p","o","n","s","e"," ","t","y","p","e"," ","f","r","o","m"," ","f","a","r","m"," ","'">> \o peer \o <<"'",".">>
     ELSE IF name = TOOL_CREATE_ORDER
     THEN IF kind = "no_text"
          THEN <<"F","a","r","m"," ","'">> \o peer \o <<"'"," ","r","e","t","u","r","n","e","d"," ","a"," ","r","e","s","u","l","t"," ","w","i","t","h","o","u","t"," ","t","e","x","t"," ","c","o","n","t","e","n","t"," ","f","o","r"," ","o","r","d","e","r"," ","c","r","e","a","t","i","o","n",".">>
          ELSE IF kind = "error" THEN <<"E","r","r","o","r"," ","f","r","o","m"," ","o","r","d","e","r"," ","a","g","e","n","t"," ","f","o","r"," ","f","a","r","m"," ","'">> \o peer \o <<"'",":"," ">> \o message
          ELSE <<"U","n","k","n","o","w","n"," ","r","e","s","p","o","n","s","e"," ","t","y","p","e"," ","f","r","o","m"," ","o","r","d","e","r"," ","a","g","e","n","t">>
     ELSE IF kind = "no_text"
          THEN <<"O","r","d","e","r"," ","a","g","e","n","t"," ","r","e","t","u","r","n","e","d"," ","a"," ","r","e","s","u","l","t"," ","w","i","t","h","o","u","t"," ","t","e","x","t"," ","c","o","n","t","e","n","t"," ","f","o","r"," ","o","r","d","e","r"," ","I","D"," ","'">> \o peer \o <<"'",".">>
          ELSE IF kind = "error" THEN <<"E","r","r","o","r"," ","f","r","o","m"," ","o","r","d","e","r"," ","a","g","e","n","t"," ","f","o","r"," ","o","r","d","e","r"," ","I","D"," ","'">> \o peer \o <<"'",":"," ">> \o message
          ELSE <<"U","n","k","n","o","w","n"," ","r","e","s","p","o","n","s","e"," ","t","y","p","e"," ","f","r","o","m"," ","o","r","d","e","r"," ","a","g","e","n","t"," ","f","o","r"," ","o","r","d","e","r"," ","I","D"," ","'">> \o peer \o <<"'",".">>

\* the text of the A2AAgentError of the except branch that ends the try block
communication_error(name, args, details) ==
  IF name = TOOL_ALL_FARMS
  THEN <<"F","a","i","l","e","d"," ","t","o"," ","c","o","m","m","u","n","i","c","a","t","e"," ","w","i","t","h"," ","a","l","l"," ","f","a","r","m","s","."," ","D","e","t","a","i","l","s",":"," ">> \o details
  ELSE
  (IF name = TOOL_INVENTORY THEN <<"F","a","i","l","e","d"," ","t","o"," ","c","o","m","m","u","n","i","c","a","t","e"," ","w","i","t","h"," ","f","a","r","m"," ","'">>
   ELSE IF name = TOOL_CREATE_ORDER THEN <<"F","a","i","l","e","d"," ","t","o"," ","c","o","m","m","u","n","i","c","a","t","e"," ","w","i","t","h"," ","o","r","d","e","r"," ","a","g","e","n","t"," ","f","o","r"," ","f","a","r","m"," ","'">>
   ELSE <<"F","a","i","l","e","d"," ","t","o"," ","c","o","m","m","u","n","i","c","a","t","e"," ","w","i","t","h"," ","o","r","d","e","r"," ","a","g","e","n","t"," ","f","o","r"," ","o","r","d","e","r"," ","I","D"," ","'">>)
    \o peer_shown(name, args) \o <<"'","."," ","D","e","t","a","i","l","s",":"," ">> \o details

\* a tool call that has not begun
IdlePeerCall ==
  [pc |-> "idle", name |-> "", args |-> <<>>, sent |-> 0, failed_at |-> "none",
   result |-> <<>>, error |-> "none", text |-> <<>>]

peer_raise(c, at, error, text) ==
  [c EXCEPT !.pc = "raised", !.failed_at = at, !.error = error, !.text = text]

\* a tool that sends its request again after a failure, once
on_communication_error_resend(c, details) ==
  IF c.sent = 1 THEN [c EXCEPT !.pc = "send", !.sent = @ + 1]
  ELSE peer_raise(c, c.pc, "A2AAgentError", communication_error(c.name, c.args, details))

\* except Exception as e of the try block: the failure is raised as an
\* A2AAgentError with the peer and the details
on_communication_error(c, details) ==
  peer_raise(c, c.pc, "A2AAgentError", communication_error(c.name, c.args, details))

\* a tool from its entry to the try block: the validation of the arguments,
\* the card of the farm; get_all_farms_yield_inventory validates nothing
peer_call_entry(name, args) ==
  LET c == [IdlePeerCall EXCEPT !.name = name, !.args = args]
  IN IF name = TOOL_INVENTORY
     THEN IF args.farm = <<>> THEN peer_raise(c, "entry", "ValueError", <<"N","o"," ","f","a","r","m"," ","w","a","s"," ","p","r","o","v","i","d","e","d","."," ","P","l","e","a","s","e"," ","p","r","o","v","i","d","e"," ","a"," ","f","a","r","m"," ","t","o"," ","g","e","t"," ","t","h","e"," ","y","i","e","l","d"," ","f","r","o","m",".">>)
          ELSE IF get_farm_card(args.farm) = <<>>
          THEN peer_raise(c, "entry", "A2AAgentError", farm_not_recognized(args.farm))
          ELSE [c EXCEPT !.pc = "create_client"]
     ELSE IF name = TOOL_CREATE_ORDER
     THEN IF args.price <= 0 \/ args.quantity <= 0
          THEN peer_raise(c, "entry", "ValueError", <<"P","r","i","c","e"," ","a","n","d"," ","q","u","a","n","t","i","t","y"," ","m","u","s","t"," ","b","e"," ","g","r","e","a","t","e","r"," ","t","h","a","n"," ","z","e","r","o",".">>)
          ELSE IF lower(strip(args.farm)) = <<>>
          THEN peer_raise(c, "entry", "ValueError", <<"N","o"," ","f","a","r","m"," ","w","a","s"," ","p","r","o","v","i","d","e","d",","," ","p","l","e","a","s","e"," ","p","r","o","v","i","d","e"," ","a"," ","f","a","r","m"," ","t","o"," ","c","r","e","a","t","e"," ","a","n"," ","o","r","d","e","r",".">>)
          ELSE IF get_farm_card(lower(strip(args.farm))) = <<>>
          THEN peer_raise(c, "entry", "ValueError", farm_not_recognized(lower(strip(args.farm))))
          ELSE [c EXCEPT !.pc = "verify_identity"]
     ELSE IF name = TOOL_ORDER_DETAILS
     THEN IF args.order_id = <<>> THEN peer_raise(c, "entry", "ValueError", <<"O","r","d","e","r"," ","I","D"," ","m","u","s","t"," ","b","e"," ","p","r","o","v","i","d","e","d",".">>)
          ELSE [c EXCEPT !.pc = "create_client"]
     ELSE [c EXCEPT !.pc = "create_client"]

DETAILS_CONNECTION == <<"c","o","n","n","e","c","t","i","o","n"," ","r","e","f","u","s","e","d">>

PEER_MESSAGE == <<"o","u","t"," ","o","f"," ","s","t","o","c","k">>

PEER_TEXT == <<" ","o","r","d","e","r"," ","4","2"," ","c","r","e","a","t","e","d"," ">>

\* the arguments of the tool calls under study
PeerCalls ==
  {[name |-> TOOL_INVENTORY, args |-> [prompt |-> PROMPT_BUY, farm |-> f]] :
     f \in {FARM_BRAZIL, <<" ","V","i","e","t","n","a","m"," ">>, <<"m","a","r","s">>, <<" ">>, <<>>}}
  \cup {[name |-> TOOL_CREATE_ORDER, args |-> a] :
          a \in {CreateOrderArgs(FARM_BRAZIL, 1, 1), CreateOrderArgs(<<"C","o","l","o","m","b","i","a">>, 1, 1),
                 CreateOrderArgs(<<" ","M","a","r","s"," ">>, 1, 1), CreateOrderArgs(FARM_BRAZIL, 0, 1),
                 CreateOrderArgs(<<" ">>, 1, 1)}}
  \cup {[name |-> TOOL_ORDER_DETAILS, args |-> [order_id |-> i]] : i \in {<<"4","2">>, <<>>}}
  \cup {[name |-> TOOL_ALL_FARMS, args |-> [prompt |-> PROMPT_BUY]]}

\* the tools node invokes the tool of the pending tool call
PeerCall ==
  /\ graph = "exchange" /\ pc \in {INVENTORY_TOOLS, ORDERS_TOOLS}
  /\ call.pc = "idle"
  /\ call' = peer_call_entry(Last(messages).tool_calls[1].name, Last(messages).tool_calls[1].args)
  /\ UNCHANGED <<env, status, used_topics, llm_handles, step, llm_raw, pc, messages, next_node,
                 result, tool, chat>>

\* what verify_farm_identity comes to: the badge of the matching app is
\* verified; no app has the name of the card and the check is skipped; the
\* badge is not verified; the identity service raises
IdentityOutcomes == {"verified", "no_app", "badge", "service"}

\* the text of the A2AAgentError that leaves verify_farm_identity: the inner
\* error of a badge that is not verified is raised inside the try block and
\* wrapped like an exception of the service
identity_error(farm_name, outcome) ==
  <<"I","d","e","n","t","i","t","y"," ","v","e","r","i","f","i","c","a","t","i","o","n"," ","f","a","i","l","e","d"," ","f","o","r"," ","f","a","r","m"," ","'">> \o farm_name \o <<"'","."," ","D","e","t","a","i","l","s",":"," ">>
    \o (IF outcome = "badge"
        THEN <<"I","d","e","n","t","i","t","y"," ","v","e","r","i","f","i","c","a","t","i","o","n"," ","f","a","i","l","e","d"," ","f","o","r"," ","f","a","r","m"," ">> \o farm_name \o <<":"," ","F","a","i","l","e","d"," ","t","o"," ","v","e","r","i","f","y"," ","b","a","d","g","e",".">>
        ELSE DETAILS_CONNECTION)

\* verify_farm_identity of create_order, called with the name of the card:
\* it returns, or raises an A2AAgentError that create_order raises again
PeerVerifyIdentity ==
  /\ call.pc = "verify_identity"
  /\ \E outcome \in IdentityOutcomes :
       call' = IF outcome \in {"verified", "no_app"} THEN [call EXCEPT !.pc = "create_client"]
               ELSE peer_raise(call, "verify_identity", "A2AAgentError",
                               identity_error(card_name(get_farm_card(lower(strip(call.args.farm)))), outcome))
  /\ UNCHANGED <<env, status, used_topics, llm_handles, step, llm_raw, pc, messages, next_node,
                 result, tool, chat>>

\* the request is handed to client.send_message, or to
\* client.broadcast_message by get_all_farms_yield_inventory, and the tool
\* waits for the answer
send_request(c) ==
  [c EXCEPT !.pc = (IF c.name = TOOL_ALL_FARMS THEN "broadcast_farms" ELSE "send"), !.sent = @ + 1]

\* the tool awaits factory.create_client.  The single-peer tools create the
\* transport inside the try block; get_all_farms_yield_inventory creates it
\* and builds the request before the try block, where an exception leaves
\* the tool as it is
PeerCreateClient ==
  /\ call.pc = "create_client"
  /\ \E outcome \in {"ok", "client"} \cup TransportErrors :
       call' = IF outcome = "ok" THEN send_request(call)
               ELSE IF outcome \in TransportErrors /\ call.name = TOOL_ALL_FARMS
               THEN peer_raise(call, "create_transport", outcome, DETAILS_CONNECTION)
               ELSE on_communication_error(call, DETAILS_CONNECTION)
  /\ UNCHANGED <<env, status, used_topics, llm_handles, step, llm_raw, pc, messages, next_node,
                 result, tool, chat>>

\* client.send_message returns or raises, and the response is read
PeerSend ==
  /\ call.pc = "send"
  /\ \E reply \in {"text", "no_text", "error", "unknown", "raise"} :
       call' = IF reply = "text" THEN [call EXCEPT !.pc = "returned", !.result = strip(PEER_TEXT)]
               ELSE IF reply = "raise" THEN on_communication_error(call, DETAILS_CONNECTION)
               ELSE on_communication_error(call, reply_error(call.name, call.args, reply, PEER_MESSAGE))
  /\ UNCHANGED <<env, status, used_topics, llm_handles, step, llm_raw, pc, messages, next_node,
                 result, tool, chat>>

\* a response of a farm to the broadcast: a result with a text part (kind
\* "text"; name is <<>> when the metadata have no name), a result whose
\* metadata are None ("no_metadata"), a result whose part has no text
\* ("no_text"), an error ("error", text is its message), or neither
FarmResponse(kind, name, text) == [kind |-> kind, name |-> name, text |-> text]

UNKNOWN_FARM == <<"U","n","k","n","o","w","n"," ","F","a","r","m">>

NO_METADATA_DETAILS == <<"'","N","o","n","e","T","y","p","e","'"," ","o","b","j","e","c","t"," ","h","a","s"," ","n","o"," ","a","t","t","r","i","b","u","t","e"," ","'","g","e","t","'">>

NO_TEXT_DETAILS == <<"'","D","a","t","a","P","a","r","t","'"," ","o","b","j","e","c","t"," ","h","a","s"," ","n","o"," ","a","t","t","r","i","b","u","t","e"," ","'","t","e","x","t","'">>

\* the loop of get_all_farms_yield_inventory over the responses: a line
\* "name : text" for each result, an exception at the first response that is
\* an error, that is of no known kind, whose metadata are None or whose part
\* has no text
RECURSIVE farm_yields(_, _)
farm_yields(responses, acc) ==
  IF responses = <<>> THEN [kind |-> "returned", text |-> strip(acc)]
  ELSE LET r == Head(responses)
       IN IF r.kind = "text"
          THEN farm_yields(Tail(responses),
                           acc \o (IF r.name = <<>> THEN UNKNOWN_FARM ELSE r.name) \o <<" ", ":", " ">>
                               \o strip(r.text) \o <<"\n">>)
          ELSE IF r.kind = "no_metadata" THEN [kind |-> "raised", text |-> NO_METADATA_DETAILS]
          ELSE IF r.kind = "no_text" THEN [kind |-> "raised", text |-> NO_TEXT_DETAILS]
          ELSE IF r.kind = "error"
          THEN [kind |-> "raised", text |-> <<"A","2","A"," ","e","r","r","o","r"," ","f","r","o","m"," ","f","a","r","m",":"," ">> \o r.text]
          ELSE [kind |-> "raised", text |-> <<"U","n","k","n","o","w","n"," ","r","e","s","p","o","n","s","e"," ","t","y","p","e"," ","f","r","o","m"," ","f","a","r","m">>]

\* the lists of responses a broadcast to the three farms collects
FarmResponses ==
  {<<>>,
   <<FarmResponse("text", FarmKeys[1], YIELD_TEXT), FarmResponse("text", FarmKeys[2], PEER_TEXT),
     FarmResponse("text", FarmKeys[3], YIELD_TEXT)>>,
   <<FarmResponse("text", <<>>, YIELD_TEXT)>>,
   <<FarmResponse("text", FarmKeys[1], YIELD_TEXT), FarmResponse("no_metadata", <<>>, YIELD_TEXT)>>,
   <<FarmResponse("text", FarmKeys[1], YIELD_TEXT), FarmResponse("error", <<>>, PEER_MESSAGE)>>,
   <<FarmResponse("unknown", <<>>, <<>>)>>,
   <<FarmResponse("no_text", FarmKeys[2], <<>>)>>}

\* client.broadcast_message of get_all_farms_yield_inventory returns the
\* responses of the farms, or raises
PeerBroadcast ==
  /\ call.pc = "broadcast_farms"
  /\ \/ \E responses \in FarmResponses :
          \E y \in {farm_yields(responses, <<>>)} :
            call' = IF y.kind = "returned" THEN [call EXCEPT !.pc = "returned", !.result = y.text]
                    ELSE on_communication_error(call, y.text)
     \/ call' = on_communication_error(call, DETAILS_CONNECTION)
  /\ UNCHANGED <<env, status, used_topics, llm_handles, step, llm_raw, pc, messages, next_node,
                 result, tool, chat>>

\* the task of the tool is cancelled while it awaits the client or the
\* answer: CancelledError leaves the tool, no except Exception catches it
PeerCancelled ==
  /\ call.pc \in {"create_client", "send", "broadcast_farms"}
  /\ call' = [call EXCEPT !.pc = "cancelled", !.failed_at = call.pc, !.error = "CancelledError"]
  /\ UNCHANGED <<env, status, used_topics, llm_handles, step, llm_raw, pc, messages, next_node,
                 result, tool, chat>>

\* the exchange graph at the entry of a tools node, one tool call pending
PeerInit ==
  /\ transport \in {"SLIM", "NATS"}
  /\ graph = "exchange"
  /\ long_run = FALSE
  /\ sched = "turns"
  /\ echo = FALSE
  /\ prompt = PROMPT_BUY
  /\ \E k \in PeerCalls :
       /\ pc = (IF k.name \in {TOOL_INVENTORY, TOOL_ALL_FARMS} THEN INVENTORY_TOOLS ELSE ORDERS_TOOLS)
       /\ next_node = (IF k.name \in {TOOL_INVENTORY, TOOL_ALL_FARMS} THEN INVENTORY ELSE ORDERS)
       /\ llm_handles = {"supervisor_llm", llm_of(next_node)}
       /\ llm_raw = AIMessage(<<>>, <<ToolCall(5, k.name, k.args)>>)
  /\ messages = <<HumanMessage(prompt), llm_raw>>
  /\ step = 2
  /\ result = NoResult
  /\ status = <<>>
  /\ used_topics = {}
  /\ http_status = 0
  /\ timeout_env = "unset"
  /\ tool = IdleTool
  /\ call = IdlePeerCall
  /\ chat = IdleChat

PeerNext ==
  \/ PeerCall
  \/ PeerVerifyIdentity
  \/ PeerCreateClient
  \/ PeerSend
  \/ PeerBroadcast
  \/ PeerCancelled

PeerSpec == PeerInit /\ [][PeerNext]_vars

(* ------------------ claims on the single-peer tools ------------------- *)

PeerNamed == IsSubstr(<<"'">> \o peer_shown(call.name, call.args) \o <<"'">>, call.text)

CommunicationFailed == call.pc = "raised" /\ call.failed_at \in {"create_client", "send"}

\* C35: a single-peer tool call sends at most one message, none before its
\* client exists; a failure of the transport, the client or the peer ends
\* the call, raised as an A2AAgentError whose text names the peer
C35_SingleAttempt ==
  call.name \in SinglePeerTools =>
    /\ call.sent <= 1
    /\ call.sent = 1 => call.pc \in {"send", "returned", "raised", "cancelled"}
    /\ CommunicationFailed => (call.error = "A2AAgentError" /\ PeerNamed)

C35_Witness ==
  /\ CommunicationFailed
  /\ call.failed_at = "send"
  /\ call.sent = 1
  /\ call.name = TOOL_CREATE_ORDER

\* the agents whose node answers the text with a reply that is not idle
ActingAgents(text) == {a \in Agents : ~IsIdleReply(agent_node(a, text))}

\* the text holds DELIVERED or STATUS_UNKNOWN and no other status
OnlyFinalStatus(text) ==
  /\ \E t \in {DELIVERED, STATUS_UNKNOWN} : IsSubstr(t, upper(text))
  /\ \A t \in StatusTexts : IsSubstr(t, upper(text)) => t \in {DELIVERED, STATUS_UNKNOWN}

\* C36: for every inbound text at most one of Farm, Shipper and Accountant
\* gives a reply that is not idle, and a text whose only status is DELIVERED
\* or STATUS_UNKNOWN makes all three idle
C36_AtMostOneActs ==
  (graph \in Agents /\ pc \in {END, "returned"}) =>
    /\ Cardinality(ActingAgents(Inbound)) <= 1
    /\ OnlyFinalStatus(Inbound) => ActingAgents(Inbound) = {}

\* the part of C36 on the texts whose only status is DELIVERED or STATUS_UNKNOWN
C36_FinalStatusIdle ==
  (graph \in Agents /\ pc \in {END, "returned"} /\ OnlyFinalStatus(Inbound)) =>
    IsIdleReply(AgentReply)

(* ------------------- claims on the routing decision ----------------- *)

\* a conditional edge after an LLM node is about to be evaluated
RouterEvaluated ==
  graph \in {"logistic", "exchange"} /\ pc \in {"orders_route", "inventory_route"}

\* C37: whenever the router of the logistic or the exchange graph is
\* evaluated, the last message of the transcript is the AI reply that the
\* LLM node has just appended, never a tool-result message: the tools node
\* hands control back to the LLM node before any routing decision
C37_RouterSeesAIReply ==
  RouterEvaluated =>
    /\ messages # <<>>
    /\ Last(messages).type = "ai"
    /\ Last(messages).type # "tool"

\* the router is evaluated after a round of the tools node, in the logistic graph
C37_Witness ==
  /\ RouterEvaluated
  /\ graph = "logistic"
  /\ Len(messages) >= 3
  /\ messages[Len(messages) - 1].type = "tool"

\* the same in the exchange graph
C37_WitnessExchange ==
  /\ RouterEvaluated
  /\ graph = "exchange"
  /\ Len(messages) >= 3
  /\ messages[Len(messages) - 1].type = "tool"

(* --------------- further claims on the entry of create_order --------- *)

ValidationStrings == {VALIDATION_PRICE_QUANTITY, VALIDATION_FARM}

\* C38: in the logistic create_order the transport check comes before the
\* validation of the arguments: under a transport other than SLIM a call with
\* an invalid price, quantity or farm raises the configuration error, and no
\* call returns a validation string, nor does one reach the transcript
C38_TransportBeforeValidation ==
  transport # "SLIM" =>
    /\ (CallMade /\ (InvalidAmounts(call.args) \/ BlankFarm(call.args))) =>
         (call.pc = "raised" /\ call.error = "ValueError")
    /\ call.result \notin ValidationStrings
    /\ \A i \in 1..Len(messages) : messages[i].content \notin ValidationStrings

\* an order of no unit has been refused for the transport
C38_Witness ==
  /\ transport = "NATS"
  /\ call.pc = "raised"
  /\ call.error = "ValueError"
  /\ call.args = CreateOrderArgs(FARM_BRAZIL, 0, 1)

\* an order for a blank farm has been refused for the transport
C38_WitnessFarm ==
  /\ transport = "NATS"
  /\ call.pc = "raised"
  /\ call.error = "ValueError"
  /\ call.args = CreateOrderArgs(<<" ">>, 1, 1)

(* ------------- claims on the client of create_order ------------------ *)

\* client creation or the construction of the request has failed
ClientFailed == call.error = "UnboundLocalError"

\* C39: when the creation of the client or the construction of the request
\* fails in the logistic create_order, no broadcast is sent and the call
\* ends in an error: the step out of client creation that sends nothing
\* raises, leaves the group chat untouched and returns no summary
C39_NoSummaryWithoutBroadcast ==
  /\ [](ClientFailed =>
          /\ call.pc = "raised"
          /\ call.result = <<>>
          /\ call.attempts = 0
          /\ chat = IdleChat)
  /\ [][(call.pc = "create_client" /\ call'.pc # "broadcast") =>
          /\ call'.pc = "raised"
          /\ call'.error # "none"
          /\ call'.result = <<>>
          /\ chat' = IdleChat
          /\ used_topics' = used_topics]_vars

\* the client could not be created
C39_Witness ==
  /\ ClientFailed
  /\ call.pc = "raised"
  /\ ~call.client
  /\ chat = IdleChat

\* the client was created and the request could not be built
C39_WitnessRequest ==
  /\ ClientFailed
  /\ call.pc = "raised"
  /\ call.client
  /\ chat = IdleChat

(* ---------------------- claims on the answer of serve ---------------- *)

\* message i of the transcript is an AI message whose content is not blank
IsAnswer(i) == messages[i].type = "ai" /\ strip(messages[i].content) # <<>>

\* message i is the last such message
AnswerAt(i) == IsAnswer(i) /\ \A j \in (i + 1)..Len(messages) : ~IsAnswer(j)

ServeEnded == graph \in {"logistic", "exchange"} /\ pc = END

\* C40: serve returns the stripped content of the last AI message with
\* non-blank content of the final transcript and raises when there is none;
\* what it returns is never taken from a human, tool or system message, so
\* the reason message of the reflection step is never the answer
C40_ServeAnswer ==
  /\ []((graph \in {"logistic", "exchange"} /\ pc = "returned") =>
          \E i \in 1..Len(messages) :
            AnswerAt(i) /\ result = Returned(strip(messages[i].content)))
  /\ [][(ServeEnded /\ pc' # pc) =>
          /\ messages' = messages
          /\ IF \E i \in 1..Len(messages) : IsAnswer(i)
             THEN pc' = "returned"
             ELSE pc' = "raised" /\ result'.kind = "raised"]_vars

\* the exchange has answered with the reply of a broker although the reason
\* of the reflection step is the last message
C40_Witness ==
  /\ graph = "exchange" /\ pc = "returned"
  /\ Last(messages).type = "system"
  /\ strip(Last(messages).content) # <<>>
  /\ \E i \in 1..(Len(messages) - 1) : AnswerAt(i)

\* the exchange has raised for want of an answer although the reason of the
\* reflection step is in the transcript
C40_WitnessRaises ==
  /\ graph = "exchange" /\ pc = "raised"
  /\ result = Raised("RuntimeError")
  /\ Last(messages).type = "system"
  /\ strip(Last(messages).content) # <<>>

\* the logistic graph has answered with an earlier reply: a tool message and
\* a blank reply follow the answer
C40_WitnessLogistic ==
  /\ graph = "logistic" /\ pc = "returned"
  /\ \E i \in 1..(Len(messages) - 2) : AnswerAt(i)

====
